---- MODULE Spec2Model ----
(***************************************************************************)
(* Model of the OMP client library: the streaming XML entity reader of     *)
(* omp/xml.c and the protocol operations of omp/omp.c.                     *)
(*                                                                         *)
(* Strings are sequences of one-character strings, so that the code's      *)
(* character tests (status[0], strlen, strtol) and the byte-wise delivery  *)
(* of the transport are computed rather than assumed.                      *)
(***************************************************************************)
EXTENDS Integers, Sequences, FiniteSets, TLC

VARIABLES
  \* ---- transport of the reader (gnutls_record_recv on the session) ----
  peer,          \* the documents the peer wrote to the session, in order
  rpos,          \* number of bytes of the stream already received
  retries,       \* transient receive results seen in the current call
  failures,      \* hard receive errors seen on the session
  \* ---- read_entity_and_text (xml.c:415-524) ----
  pc,            \* "idle" between calls, "recv" inside the read loop
  parse,         \* tokenizer + context_data + entities of the current call
  entity,        \* the caller's *entity (0 is NULL)
  written,       \* TRUE when the current call has assigned *entity
  ret,           \* return value of the last finished call
  last,          \* what the last step of the reader did
  returned,      \* one record per finished call: its result and tree
  \* ---- protocol client (omp.c) ----
  op,            \* operation being executed, "none" when idle
  opc,           \* position inside the operation
  sends,         \* requests handed to openvas_server_send so far
  response,      \* entity tree read_entity gave to the operation
  got,           \* TRUE when read_entity stored a tree for the operation
  released,      \* number of free_entity calls on the response
  out,           \* the caller's output pointer (*status, *response)
  id,            \* the caller's *id
  errno,         \* process-wide errno
  args,          \* arguments of the operation
  result,        \* return value of the finished operation
  trace,         \* sends, reads and sleeps of the current polling loop
  seen,          \* responses read by the current polling loop, in order
  pending,       \* requests on the session whose response is still unread
  up,            \* omp_until_up: the function, its calls and their results
  env,           \* what the peer and the transport may do on the session
  \* ---- entity trees and parser callbacks on their own (xml.c) ----
  ta,            \* an entity pointer: <<>> (NULL) or <<tree>>
  tb,            \* a second entity pointer
  cmp,           \* result of compare_entities (ta, tb), -1 before the call
  dump,          \* what print_entity (stream, ta) wrote, NULL before the call
  back,          \* result and tree of reading dump back, <<>> before that
  looked,        \* name and result of the last entity_child call on ta
  calls,         \* the add_attribute calls made on ta, in order
  ctx,           \* context_data_t and entities of a run of parser callbacks
  events,        \* the callbacks the tokenizer has made in that run
  \* ---- nasl_wmi_close (credentials.c:241-261) ----
  wpc,           \* "idle", "alloc", "close" or "done"
  wmi_handle,    \* the local variable wmi_handle of the lexical context
  retc,          \* the tree cell of the call: <<>> (NULL) or <<cell>>
  wout           \* the finished calls: handle, wmi_close result, return

rvars == <<peer, rpos, retries, failures, pc, parse, entity, written, ret, last, returned>>
ovars == <<op, opc, sends, response, got, released, out, id, errno, args, result,
          trace, seen, pending, up, env>>
tvars == <<ta, tb, cmp, dump, back, looked, calls, ctx, events>>
wvars == <<wpc, wmi_handle, retc, wout>>
vars == <<peer, rpos, retries, failures, pc, parse, entity, written, ret, last,
          returned, op, opc, sends, response, got, released, out, id, errno, args, result,
          trace, seen, pending, up, env, ta, tb, cmp, dump, back, looked, calls, ctx,
          events,
          wpc, wmi_handle, retc, wout>>

(***************************************************************************)
(* Bounds of the model.                                                    *)
(***************************************************************************)
MaxDocs == 2        \* documents the peer writes on one session
MaxCalls == 2       \* read_entity calls on one session
MaxRetries == 1     \* transient receive results within one call
MaxFailures == 1    \* hard receive errors on one session

(***************************************************************************)
(* Program constants.                                                      *)
(***************************************************************************)
BUFFER_SIZE == 1048576
GNUTLS_E_INTERRUPTED == -52
GNUTLS_E_REHANDSHAKE == -37
GNUTLS_E_PULL_ERROR == -54

DQ == "\""
NULLSTR == <<"(null)">>     \* a NULL char*, distinct from every string
NoArgs == [id |-> NULLSTR, rcfile |-> NULLSTR, name |-> NULLSTR,
           comment |-> NULLSTR, config |-> <<>>, config_len |-> 0]
NoUp == [fn |-> "none", n |-> 0, calls |-> <<>>]   \* omp_until_up not running

Min(a, b) == IF a < b THEN a ELSE b

RECURSIVE Concat(_)
Concat(ss) == IF ss = <<>> THEN <<>> ELSE Head(ss) \o Concat(Tail(ss))

(***************************************************************************)
(* Entity tree.  Entities live in a heap (a sequence); 0 is NULL.  An      *)
(* entity's attributes are NULL until the first attribute is added.        *)
(***************************************************************************)
NoAttributes == [null |-> TRUE, table |-> {}]

\* g_hash_table_insert with g_str_equal keys: an existing key is replaced.
HashInsert_keep(attributes, name, value) ==
  [null |-> FALSE,
   table |-> IF \E kv \in attributes.table : kv[1] = name
             THEN attributes.table
             ELSE attributes.table \cup {<<name, value>>}]
HashInsert(attributes, name, value) ==
  [null |-> FALSE,
   table |-> {kv \in attributes.table : kv[1] # name} \cup {<<name, value>>}]

make_entity(name, text) ==
  [name       |-> IF name = NULLSTR THEN <<>> ELSE name,
   text       |-> IF text = NULLSTR THEN <<>> ELSE text,
   entities   |-> <<>>,
   attributes |-> NoAttributes,
   freed      |-> 0]

\* add_entity (&parent->entities, name, text); parent = 0 passes NULL.
\* The new entity is the last heap cell.
add_entity(H, parent, name, text) ==
  LET H1 == Append(H, make_entity(name, text))
  IN IF parent # 0
     THEN [H1 EXCEPT ![parent].entities = Append(@, Len(H1))]
     ELSE H1

add_attribute(H, e, name, value) ==
  [H EXCEPT ![e].attributes = HashInsert(@, name, value)]

RECURSIVE add_attributes(_, _, _, _)
add_attributes(H, e, names, values) ==
  IF names = <<>> \/ values = <<>> THEN H
  ELSE add_attributes(add_attribute(H, e, Head(names), Head(values)),
                      e, Tail(names), Tail(values))

\* free_entity: releases the entity and, recursively, its children.  The
\* model counts the releases of each entity.
RECURSIVE free_entity(_, _)
RECURSIVE free_entities(_, _)
free_entities(H, list) ==
  IF list = <<>> THEN H
  ELSE free_entities(free_entity(H, Head(list)), Tail(list))
free_entity(H, e) ==
  IF e = 0 THEN H
  ELSE free_entities([H EXCEPT ![e].freed = @ + 1], H[e].entities)

\* The tree below heap cell e, as a value (names, text, attributes and
\* children in order).
RECURSIVE Tree(_, _)
Tree(H, e) ==
  [name       |-> H[e].name,
   text       |-> H[e].text,
   attributes |-> H[e].attributes,
   entities   |-> [i \in 1..Len(H[e].entities) |-> Tree(H, H[e].entities[i])]]

(***************************************************************************)
(* Parser callbacks.  A parse state P holds the tokenizer (tk), the        *)
(* context_data_t (data), the entities (heap), the number of GSList cells  *)
(* allocated (nodes) and whether an assert failed (abort).  A GSList is a  *)
(* sequence of cells [node, data]; two lists are the same pointer when     *)
(* both are NULL or their first cells are the same cell.                   *)
(***************************************************************************)
SameList(l1, l2) ==
  \/ l1 = <<>> /\ l2 = <<>>
  \/ l1 # <<>> /\ l2 # <<>> /\ Head(l1).node = Head(l2).node

handle_start_element(P, element_name, attribute_names, attribute_values) ==
  LET data   == P.data
      parent == IF data.current # <<>> THEN Head(data.current).data ELSE 0
      H1     == add_entity(P.heap, parent, element_name, NULLSTR)
      new    == Len(H1)
      H2     == add_attributes(H1, new, attribute_names, attribute_values)
      cell   == [node |-> P.nodes + 1, data |-> new]
  IN [P EXCEPT
        !.heap  = H2,
        !.nodes = @ + 1,
        !.data  = IF data.first = <<>>
                  THEN [data EXCEPT !.first = <<cell>>, !.current = <<cell>>]
                  ELSE [data EXCEPT !.current = <<cell>> \o data.current]]

handle_end_element_any(P, element_name) ==
  IF P.data.current = <<>> \/ P.data.first = <<>>
  THEN [P EXCEPT !.abort = TRUE]
  ELSE [P EXCEPT !.data.done = TRUE, !.data.current = Tail(@)]
handle_end_element(P, element_name) ==
  LET data == P.data
  IN IF data.current = <<>> \/ data.first = <<>>
     THEN [P EXCEPT !.abort = TRUE]
     ELSE IF SameList(data.current, data.first)
          THEN IF element_name # P.heap[Head(data.first).data].name
               THEN [P EXCEPT !.abort = TRUE]
               ELSE [P EXCEPT !.data.done = TRUE,
                              !.data.current = Tail(@)]
          ELSE [P EXCEPT !.data.current = Tail(@)]

handle_text_replace(P, text) ==
  IF P.data.current = <<>>
  THEN [P EXCEPT !.abort = TRUE]
  ELSE [P EXCEPT !.heap[Head(P.data.current).data].text = text]

handle_text(P, text) ==
  IF P.data.current = <<>>
  THEN [P EXCEPT !.abort = TRUE]
  ELSE [P EXCEPT !.heap[Head(P.data.current).data].text = @ \o text]

(***************************************************************************)
(* The tokenizer the reader drives (GMarkup parse context), for the       *)
(* subset of XML the client exchanges: elements, double-quoted             *)
(* attributes, nested children and text.  It keeps its own stack of open   *)
(* tag names, reports a close tag that does not match the open one as an   *)
(* error, and - like GMarkup - goes back to its start state when the       *)
(* outermost element closes, ready for another element.                    *)
(***************************************************************************)
IsSpace(c) == c = " "
IsNameEnd(c) == c \in {"=", "/", ">", " ", "<", DQ}

\* g_markup_parse_context_new (&xml_parser, 0, &context_data, NULL) with
\* context_data.done = FALSE, first = NULL, current = NULL.
NewParse ==
  [tk    |-> [state          |-> "START",
              partial        |-> <<>>,
              tag_stack      |-> <<>>,
              attr_names     |-> <<>>,
              attr_values    |-> <<>>,
              document_empty |-> TRUE,
              error          |-> FALSE],
   data  |-> [first |-> <<>>, current |-> <<>>, done |-> FALSE],
   heap  |-> <<>>,
   nodes |-> 0,
   abort |-> FALSE]

SetError(P) == [P EXCEPT !.tk.state = "ERROR", !.tk.error = TRUE]
SetState(P, s) == [P EXCEPT !.tk.state = s]
AddToPartial(P, c) == [P EXCEPT !.tk.partial = Append(@, c)]

emit_start_element(P) ==
  handle_start_element([P EXCEPT !.tk.attr_names = <<>>,
                                 !.tk.attr_values = <<>>],
                       Head(P.tk.tag_stack), P.tk.attr_names,
                       P.tk.attr_values)

emit_end_element(P) ==
  handle_end_element([P EXCEPT !.tk.tag_stack = Tail(@)],
                     Head(P.tk.tag_stack))

emit_text(P) ==
  handle_text([P EXCEPT !.tk.partial = <<>>], P.tk.partial)

BetweenAttributes(P, c) ==
  IF IsSpace(c) THEN P
  ELSE IF c = "/" THEN emit_start_element(SetState(P, "AFTER_ELISION_SLASH"))
  ELSE IF c = ">" THEN emit_start_element(SetState(P, "AFTER_CLOSE_ANGLE"))
  ELSE IF ~IsNameEnd(c)
       THEN [P EXCEPT !.tk.state = "INSIDE_ATTRIBUTE_NAME",
                      !.tk.partial = <<c>>]
  ELSE SetError(P)

AfterAttributeName(P, c) ==
  IF IsSpace(c) THEN P
  ELSE IF c = "=" THEN SetState(P, "AFTER_ATTRIBUTE_EQUALS_SIGN")
  ELSE SetError(P)

AfterCloseTagName(P, c) ==
  IF IsSpace(c) THEN P
  ELSE IF c = ">"
       THEN IF P.tk.tag_stack = <<>> THEN SetError(P)
            ELSE IF P.tk.partial # Head(P.tk.tag_stack) THEN SetError(P)
            ELSE emit_end_element([P EXCEPT !.tk.state = "AFTER_CLOSE_ANGLE",
                                            !.tk.partial = <<>>])
  ELSE SetError(P)

\* One byte of input in tokenizer state s.
InState(P, s, c) ==
  CASE s = "START" ->
         IF IsSpace(c) THEN P
         ELSE IF c = "<"
              THEN [P EXCEPT !.tk.state = "AFTER_OPEN_ANGLE",
                             !.tk.document_empty = FALSE]
         ELSE SetError(P)
    [] s = "AFTER_OPEN_ANGLE" ->
         IF c = "/" THEN SetState(P, "AFTER_CLOSE_TAG_SLASH")
         ELSE IF ~IsNameEnd(c)
              THEN [P EXCEPT !.tk.state = "INSIDE_OPEN_TAG_NAME",
                             !.tk.partial = <<c>>]
         ELSE SetError(P)
    [] s = "INSIDE_OPEN_TAG_NAME" ->
         IF ~IsNameEnd(c) THEN AddToPartial(P, c)
         ELSE BetweenAttributes(
                [P EXCEPT !.tk.tag_stack = <<P.tk.partial>> \o @,
                          !.tk.partial = <<>>,
                          !.tk.state = "BETWEEN_ATTRIBUTES"], c)
    [] s = "BETWEEN_ATTRIBUTES" -> BetweenAttributes(P, c)
    [] s = "INSIDE_ATTRIBUTE_NAME" ->
         IF ~IsNameEnd(c) THEN AddToPartial(P, c)
         ELSE AfterAttributeName(
                [P EXCEPT !.tk.attr_names = Append(@, P.tk.partial),
                          !.tk.partial = <<>>,
                          !.tk.state = "AFTER_ATTRIBUTE_NAME"], c)
    [] s = "AFTER_ATTRIBUTE_NAME" -> AfterAttributeName(P, c)
    [] s = "AFTER_ATTRIBUTE_EQUALS_SIGN" ->
         IF IsSpace(c) THEN P
         ELSE IF c = DQ THEN SetState(P, "INSIDE_ATTRIBUTE_VALUE_DQ")
         ELSE SetError(P)
    [] s = "INSIDE_ATTRIBUTE_VALUE_DQ" ->
         IF c # DQ THEN AddToPartial(P, c)
         ELSE [P EXCEPT !.tk.attr_values = Append(@, P.tk.partial),
                        !.tk.partial = <<>>,
                        !.tk.state = "BETWEEN_ATTRIBUTES"]
    [] s = "AFTER_ELISION_SLASH" ->
         IF c = ">" THEN emit_end_element(SetState(P, "AFTER_CLOSE_ANGLE"))
         ELSE SetError(P)
    [] s = "INSIDE_TEXT" ->
         IF c # "<" THEN AddToPartial(P, c)
         ELSE emit_text(SetState(P, "AFTER_OPEN_ANGLE"))
    [] s = "AFTER_CLOSE_TAG_SLASH" ->
         IF ~IsNameEnd(c)
         THEN [P EXCEPT !.tk.state = "INSIDE_CLOSE_TAG_NAME",
                        !.tk.partial = <<c>>]
         ELSE SetError(P)
    [] s = "INSIDE_CLOSE_TAG_NAME" ->
         IF ~IsNameEnd(c) THEN AddToPartial(P, c)
         ELSE AfterCloseTagName(SetState(P, "AFTER_CLOSE_TAG_NAME"), c)
    [] s = "AFTER_CLOSE_TAG_NAME" -> AfterCloseTagName(P, c)
    [] OTHER -> SetError(P)

\* After a '>' the tokenizer is inside text when an element is open and
\* back at the start of a document when none is.
ParseChar(P, c) ==
  IF P.tk.state = "AFTER_CLOSE_ANGLE"
  THEN IF P.tk.tag_stack = <<>>
       THEN InState(SetState(P, "START"), "START", c)
       ELSE InState(SetState(P, "INSIDE_TEXT"), "INSIDE_TEXT", c)
  ELSE InState(P, P.tk.state, c)

RECURSIVE ParseBytes(_, _)
ParseBytes(P, bytes) ==
  IF bytes = <<>> \/ P.tk.error \/ P.abort THEN P
  ELSE ParseBytes(ParseChar(P, Head(bytes)), Tail(bytes))

\* g_markup_parse_context_parse (xml_context, buffer_start, count, &error).
\* All count bytes are given to the tokenizer.  Text that is still running
\* at the end of the bytes is kept by the tokenizer, or handed to the text
\* callback at once when split is TRUE: the callback may be invoked several
\* times for one run of text.
ParseChunk(P, bytes, split) ==
  LET Q == ParseBytes(P, bytes)
  IN IF split /\ ~Q.tk.error /\ ~Q.abort /\ Q.tk.state = "INSIDE_TEXT"
        /\ Q.tk.partial # <<>>
     THEN emit_text(Q)
     ELSE Q

\* g_markup_parse_context_end_parse (xml_context, &error): TRUE when it
\* sets the error.
EndParseError(P) ==
  \/ P.tk.error
  \/ P.tk.document_empty
  \/ ~ \/ P.tk.state = "START"
       \/ P.tk.state = "AFTER_CLOSE_ANGLE" /\ P.tk.tag_stack = <<>>

(***************************************************************************)
(* What the peer writes.  A stream is some well-formed documents,          *)
(* optionally followed by a truncated or malformed one.                    *)
(***************************************************************************)
\* <a x="1"><b>hi</b><c>there</c></a>
DocExample ==
  <<"<","a"," ","x","=",DQ,"1",DQ,">","<","b",">","h","i","<","/","b",">",
    "<","c",">","t","h","e","r","e","<","/","c",">","<","/","a",">">>
\* <b/>
DocEmpty == <<"<","b","/",">">>
\* <c>x<d/>y</c>
DocMixed == <<"<","c",">","x","<","d","/",">","y","<","/","c",">">>
\* <a><b>
DocTruncated == <<"<","a",">","<","b",">">>
\* <a>x</b>
DocMismatch == <<"<","a",">","x","<","/","b",">">>

WellFormed == {DocExample, DocEmpty, DocMixed}
Short == {DocEmpty, DocMixed}
Broken == {DocTruncated, DocMismatch}

RECURSIVE SeqsUpTo(_, _)
SeqsUpTo(S, n) ==
  IF n = 0 THEN {<<>>}
  ELSE LET T == SeqsUpTo(S, n - 1)
       IN T \cup {Append(t, s) : t \in {u \in T : Len(u) = n - 1}, s \in S}

\* Nothing at all, one document of any kind, or up to MaxDocs short
\* documents of which the last may be broken.
Peers ==
  LET W == SeqsUpTo(Short, MaxDocs)
  IN {<<d>> : d \in WellFormed \cup Broken}
       \cup W
       \cup {Append(w, b) : w \in {u \in W : Len(u) < MaxDocs}, b \in Broken}

Stream == Concat(peer)

(***************************************************************************)
(* read_entity_and_text, called as read_entity (text = NULL).              *)
(***************************************************************************)
IsRetry_interrupted_only(count) == count = GNUTLS_E_INTERRUPTED

\* xml.c:461-466: the receive results after which the same receive is
\* issued again.
IsRetry(count) ==
  count = GNUTLS_E_INTERRUPTED \/ count = GNUTLS_E_REHANDSHAKE

FreePartial_none(P) == P

\* if (context_data.first && context_data.first->data)
\*   free_entity (context_data.first->data);
FreePartial(P) ==
  IF P.data.first # <<>> /\ Head(P.data.first).data # 0
  THEN [P EXCEPT !.heap = free_entity(P.heap, Head(P.data.first).data)]
  ELSE P

\* What the last step did: its kind, a receive count that is not positive,
\* and a summary of the chunks of data received in the current call (their
\* number up to 2, and whether each was a single byte).
NoStep(k) == [kind |-> k, count |-> 0, chunks |-> 0, bytewise |-> TRUE]

\* The call returns r; the caller's view of it is recorded.
Return(r, P, e, w, pos) ==
  /\ pc' = "idle"
  /\ ret' = r
  /\ parse' = P
  /\ entity' = e
  /\ written' = w
  /\ returned' = Append(returned,
                        [ret  |-> r,
                         tree |-> IF w THEN <<Tree(P.heap, e)>> ELSE <<>>,
                         rpos |-> pos])

\* The caller clears its pointer and calls read_entity: the function sets
\* up the parser and the context (xml.c:418-446).
ReadEntity ==
  /\ pc = "idle"
  /\ Len(returned) < MaxCalls
  /\ pc' = "recv"
  /\ parse' = NewParse
  /\ entity' = 0
  /\ written' = FALSE
  /\ retries' = 0
  /\ last' = NoStep("call")
  /\ UNCHANGED <<peer, rpos, failures, ret, returned>>
  /\ UNCHANGED <<ovars, tvars, wvars>>

\* gnutls_record_recv returns a negative count (xml.c:459-473).
RecvNegative ==
  /\ pc = "recv"
  /\ \E count \in {GNUTLS_E_INTERRUPTED, GNUTLS_E_REHANDSHAKE,
                   GNUTLS_E_PULL_ERROR} :
       /\ last' = [last EXCEPT !.kind = "negative", !.count = count]
       /\ IF IsRetry(count)
          THEN /\ retries < MaxRetries
               /\ retries' = retries + 1
               /\ UNCHANGED <<failures, pc, parse, entity, written, ret,
                              returned>>
          ELSE /\ failures < MaxFailures
               /\ failures' = failures + 1
               /\ Return(-1, FreePartial(parse), entity, written, rpos)
               /\ UNCHANGED retries
  /\ UNCHANGED <<peer, rpos>>
  /\ UNCHANGED <<ovars, tvars, wvars>>

\* gnutls_record_recv returns 0: the peer closed the session after the
\* last byte it wrote (xml.c:474-487).
RecvEndOfFile ==
  /\ pc = "recv"
  /\ rpos = Len(Stream)
  /\ last' = [last EXCEPT !.kind = "eof", !.count = 0]
  /\ Return(-3, FreePartial(parse), entity, written, rpos)
  /\ UNCHANGED <<peer, rpos, retries, failures>>
  /\ UNCHANGED <<ovars, tvars, wvars>>

\* gnutls_record_recv returns count > 0 bytes, at most the buffer size;
\* they are parsed and the done flag is tested (xml.c:488-522).
RecvData ==
  /\ pc = "recv"
  /\ \E count \in 1..Min(BUFFER_SIZE, Len(Stream) - rpos), split \in BOOLEAN :
       LET P == ParseChunk(parse, SubSeq(Stream, rpos + 1, rpos + count),
                           split)
           l == [kind     |-> "data",
                 count    |-> 0,
                 chunks   |-> Min(last.chunks + 1, 2),
                 bytewise |-> last.bytewise /\ count = 1]
       IN /\ rpos' = rpos + count
          /\ last' = l
          /\ IF P.abort
             THEN /\ pc' = "aborted"
                  /\ parse' = P
                  /\ UNCHANGED <<entity, written, ret, returned>>
             ELSE IF P.tk.error
             THEN Return(-2, FreePartial(P), entity, written, rpos')
             ELSE IF P.data.done
             THEN IF EndParseError(P)
                  THEN Return(-2, FreePartial(P), entity, written, rpos')
                  ELSE Return(0, P, Head(P.data.first).data, TRUE, rpos')
             ELSE /\ parse' = P
                  /\ UNCHANGED <<pc, entity, written, ret, returned>>
  /\ UNCHANGED <<peer, retries, failures>>
  /\ UNCHANGED <<ovars, tvars, wvars>>

OmpIdle ==
  /\ op = "none"
  /\ opc = "idle"
  /\ sends = <<>>
  /\ response = <<>>
  /\ got = FALSE
  /\ released = 0
  /\ out = <<>>
  /\ id = NULLSTR
  /\ errno = 0
  /\ args = NoArgs
  /\ result = 0
  /\ trace = <<>>
  /\ seen = <<>>
  /\ pending = 0
  /\ up = NoUp
  /\ env = "any"

ReaderIdle ==
  /\ peer = <<>>
  /\ rpos = 0
  /\ retries = 0
  /\ failures = 0
  /\ pc = "idle"
  /\ parse = NewParse
  /\ entity = 0
  /\ written = FALSE
  /\ ret = 0
  /\ last = NoStep("none")
  /\ returned = <<>>

\* nasl_wmi_close has not been called.
WmiIdle ==
  /\ wpc = "idle"
  /\ wmi_handle = 0
  /\ retc = <<>>
  /\ wout = <<>>

\* No entity is held and no callback has run.
TreeIdle ==
  /\ ta = <<>>
  /\ tb = <<>>
  /\ cmp = -1
  /\ dump = NULLSTR
  /\ back = <<>>
  /\ looked = <<>>
  /\ calls = <<>>
  /\ ctx = NewParse
  /\ events = <<>>

Init ==
  /\ peer \in Peers
  /\ rpos = 0
  /\ retries = 0
  /\ failures = 0
  /\ pc = "idle"
  /\ parse = NewParse
  /\ entity = 0
  /\ written = FALSE
  /\ ret = 0
  /\ last = NoStep("none")
  /\ returned = <<>>
  /\ OmpIdle
  /\ TreeIdle
  /\ WmiIdle

Next == ReadEntity \/ RecvNegative \/ RecvEndOfFile \/ RecvData

Spec == Init /\ [][Next]_vars

(***************************************************************************)
(* Properties of the reader.                                               *)
(***************************************************************************)
\* What read_entity gives for document d when a single receive delivers
\* all of d: its return value and the tree it stores.
OneChunk(d) ==
  LET P == ParseChunk(NewParse, d, FALSE)
  IN IF ~P.tk.error /\ ~P.abort /\ P.data.done /\ ~EndParseError(P)
     THEN [ret |-> 0, tree |-> <<Tree(P.heap, Head(P.data.first).data)>>]
     ELSE [ret |-> -2, tree |-> <<>>]

Leaf(name, text) ==
  [name |-> name, text |-> text, attributes |-> NoAttributes,
   entities |-> <<>>]

\* The tree of <a x="1"><b>hi</b><c>there</c></a>.
ExampleTree ==
  [name       |-> <<"a">>,
   text       |-> <<>>,
   attributes |-> [null |-> FALSE, table |-> {<< <<"x">>, <<"1">> >>}],
   entities   |-> << Leaf(<<"b">>, <<"h", "i">>),
                     Leaf(<<"c">>, <<"t", "h", "e", "r", "e">>) >>]

AllReleasedOnce(H) == \A e \in 1..Len(H) : H[e].freed = 1

\* C1: when the peer writes one well-formed document and the transport
\* delivers it in chunks of any sizes (and the receive does not fail), the
\* first read_entity call returns 0 and stores the same tree - names, text,
\* attributes, children in order - as when the document arrives in one
\* chunk.
ChunkIndependence ==
  \A d \in WellFormed :
    (peer = <<d>> /\ Len(returned) >= 1 /\ returned[1].ret # -1)
      => /\ OneChunk(d).ret = 0
         /\ returned[1].ret = 0
         /\ returned[1].tree = OneChunk(d).tree

\* The example document, delivered one byte per receive, has been read.
ByteAtATimeRead ==
  /\ peer = <<DocExample>>
  /\ pc = "idle"
  /\ Len(returned) = 1
  /\ last.kind = "data" /\ last.bytewise /\ last.chunks = 2
  /\ ret = 0
  /\ returned[1].tree = <<ExampleTree>>

\* C2: as long as every read_entity call so far returned 0, the k-th call
\* returned the tree of the k-th document the peer wrote and consumed the
\* stream exactly up to the end of that document.
OneDocumentPerCall ==
  \A k \in 1..Len(returned) :
    (\A j \in 1..k : returned[j].ret = 0)
      => /\ k <= Len(peer)
         /\ returned[k].tree = OneChunk(peer[k]).tree
         /\ returned[k].rpos = Len(Concat(SubSeq(peer, 1, k)))

ErrorDiscards ==
  /\ (pc = "idle" /\ ret \in {-1, -2})
       => (AllReleasedOnce(parse.heap) /\ ~written /\ entity = 0)
  /\ written
       => /\ pc = "idle"
          /\ ret = 0
          /\ parse.data.done
          /\ entity = Head(parse.data.first).data

\* C5: a receive result of GNUTLS_E_INTERRUPTED or GNUTLS_E_REHANDSHAKE
\* leaves the call in its receive loop with the tokenizer, the context
\* (stack, root, done flag), the entities, the stream position and the
\* caller's variables unchanged; nothing is returned.
TransientReceiveRetried ==
  [][(last'.kind = "negative"
        /\ last'.count \in {GNUTLS_E_INTERRUPTED, GNUTLS_E_REHANDSHAKE})
       => /\ pc = "recv" /\ pc' = "recv"
          /\ UNCHANGED <<parse, rpos, returned, ret, entity, written,
                         failures>>]_vars

\* A call that saw transient results between its chunks returned the tree.
RetriedThenRead ==
  /\ peer = <<DocExample>>
  /\ pc = "idle"
  /\ retries >= 1
  /\ last.chunks = 2
  /\ ret = 0
  /\ returned[1].tree = <<ExampleTree>>

(***************************************************************************)
(* Protocol client (omp.c).  An operation sends its request with           *)
(* openvas_server_send / openvas_server_sendf, reads one response with     *)
(* read_entity and classifies it.  The response is a tree value; a         *)
(* pointer to an entity is <<>> (NULL) or <<tree>>.                        *)
(***************************************************************************)
ERANGE == 34

S_status == <<"s", "t", "a", "t", "u", "s">>
S_task_id == <<"t", "a", "s", "k", "_", "i", "d">>
S_other == <<"i", "d">>
S_t1 == <<"t", "1">>

\* entity_attribute: the value, or NULL when the entity has no attributes
\* or none of that name.
entity_attribute(e, name) ==
  IF ~e.attributes.null
  THEN IF \E kv \in e.attributes.table : kv[1] = name
       THEN (CHOOSE kv \in e.attributes.table : kv[1] = name)[2]
       ELSE NULLSTR
  ELSE NULLSTR

\* g_slist_find_custom with compare_entity_with_name (strcmp): the first
\* element of the list whose name is name.
RECURSIVE FindByName(_, _)
FindByName(list, name) ==
  IF list = <<>> THEN <<>>
  ELSE IF Head(list).name = name THEN <<Head(list)>>
  ELSE FindByName(Tail(list), name)

entity_child_last(e, name) ==
  LET found == SelectSeq(e.entities, LAMBDA c : c.name = name)
  IN IF found = <<>> THEN <<>> ELSE <<found[Len(found)]>>
entity_child(e, name) ==
  IF e.entities # <<>> THEN FindByName(e.entities, name) ELSE <<>>

entity_text(e) == e.text

\* strtol (s, NULL, 10) for strings short enough not to overflow a long:
\* optional white space, optional sign, then the longest run of digits; 0
\* when there is no digit.  errno is left as it was.
IsDigit(c) == c \in {"0", "1", "2", "3", "4", "5", "6", "7", "8", "9"}
DigitValue(c) ==
  CASE c = "0" -> 0 [] c = "1" -> 1 [] c = "2" -> 2 [] c = "3" -> 3
    [] c = "4" -> 4 [] c = "5" -> 5 [] c = "6" -> 6 [] c = "7" -> 7
    [] c = "8" -> 8 [] c = "9" -> 9

RECURSIVE StrtolDigits(_, _)
StrtolDigits(s, acc) ==
  IF s = <<>> \/ ~IsDigit(Head(s)) THEN acc
  ELSE StrtolDigits(Tail(s), acc * 10 + DigitValue(Head(s)))

RECURSIVE strtol(_)
strtol(s) ==
  IF s = <<>> THEN 0
  ELSE IF IsSpace(Head(s)) THEN strtol(Tail(s))
  ELSE IF Head(s) = "-" THEN 0 - StrtolDigits(Tail(s), 0)
  ELSE IF Head(s) = "+" THEN StrtolDigits(Tail(s), 0)
  ELSE StrtolDigits(s, 0)

\* Responses the manager may send: a root with or without attributes, with
\* a status attribute of various values, with or without a task_id child.
StatusValues ==
  {<<>>, <<"2", "0", "0">>, <<"2", "0", "1">>, <<"4", "0", "0">>,
   <<"5", "0", "3">>, <<"a", "b", "c">>}

ResponseAttributes ==
  {NoAttributes, HashInsert(NoAttributes, S_other, S_t1)}
    \cup {HashInsert(NoAttributes, S_status, v) : v \in StatusValues}

\* <task_id>text</task_id>
TaskId(text) ==
  [name |-> S_task_id, text |-> text, attributes |-> NoAttributes,
   entities |-> <<>>]

\* No child, one task_id child, two of them with different texts, and a
\* task_id that is a grandchild only.
ResponseChildren ==
  {<<>>,
   <<TaskId(S_t1)>>,
   <<TaskId(S_t1), TaskId(<<"t", "2">>)>>,
   << [name |-> <<"w">>, text |-> <<>>, attributes |-> NoAttributes,
       entities |-> <<TaskId(S_t1)>>] >>}

Responses ==
  {[name |-> <<"r">>, text |-> <<>>, attributes |-> a, entities |-> c] :
     a \in ResponseAttributes, c \in ResponseChildren}

\* openvas_server_send and openvas_server_sendf: 0 when the whole string
\* was sent, -1 when the transport failed.
openvas_server_send == {0, -1}

\* read_entity: 0 success, -1 read error, -2 parse error, -3 end of file.
read_entity == {0, -1, -2, -3}

\* The results taken as failure by if (openvas_server_send (...)) and by
\* if (openvas_server_sendf (...) == -1), and what is then returned: -1, or
\* the result itself.
SendFailed == {r \in openvas_server_send : r # 0}
SendfFailed == {r \in openvas_server_send : r = -1}
MinusOne == [r \in openvas_server_send |-> -1]
SameAs == [r \in openvas_server_send |-> r]

Outcome(r, n) == [ret |-> r, free |-> n, id |-> NULLSTR]

\* The operation returns o.ret after o.free calls of free_entity on the
\* response; o.id, when not NULL, has been stored through the id pointer.
Finish(o) ==
  /\ opc' = "done"
  /\ result' = o.ret
  /\ released' = released + o.free
  /\ id' = o.id

\* A caller invokes operation f with arguments drawn from A; errno holds
\* whatever earlier library calls left in it.
Enter(f, A) ==
  /\ op' = f
  /\ opc' = "send"
  /\ args' \in A
  /\ errno' \in {0, ERANGE}
  /\ sends' = <<>>
  /\ response' = <<>>
  /\ got' = FALSE
  /\ released' = 0
  /\ out' = <<>>
  /\ id' = NULLSTR
  /\ result' = 0
  /\ trace' = <<>>
  /\ seen' = <<>>
  /\ UNCHANGED <<pending, env>>
  /\ UNCHANGED <<rvars, tvars, wvars>>

\* A call made by the caller itself, not by omp_until_up on its behalf.
Call(f, A) ==
  /\ opc \in {"idle", "done"}
  /\ up.fn = "none"
  /\ Enter(f, A)
  /\ up' = NoUp

\* Where the operation goes after sending string k of the n strings of its
\* request: to the next string, or to read_entity.
AfterSend_unread(k, n) == IF k = n THEN "sleep" ELSE "send"
AfterSend(k, n) == IF k = n THEN "read" ELSE "send"

\* The requests awaiting their response once string k of n is on the wire:
\* the request is whole with its last string.
Sent(p, k, n) == IF k = n THEN p + 1 ELSE p

\* The next string of requests is handed to the send primitive; a failure
\* ends the operation with failret of the primitive's result.
Send(f, requests, failed, failret) ==
  /\ op = f
  /\ opc = "send"
  /\ \E r \in openvas_server_send :
       IF r \in failed
       THEN /\ Finish(Outcome(failret[r], 0))
            /\ UNCHANGED <<sends, pending>>
       ELSE /\ sends' = Append(sends, requests[Len(sends) + 1])
            /\ opc' = AfterSend(Len(sends) + 1, Len(requests))
            /\ pending' = Sent(pending, Len(sends) + 1, Len(requests))
            /\ UNCHANGED <<result, released, id>>
  /\ UNCHANGED <<op, response, got, out, errno, args, trace, seen, up, env>>
  /\ UNCHANGED <<rvars, tvars, wvars>>

\* entity = NULL (or *response = NULL);
\* if (read_entity (session, &entity)) return -1;
\* through is TRUE when the tree is stored through the caller's pointer.
Read(f, through) ==
  /\ op = f
  /\ opc = "read"
  /\ \E r \in read_entity :
       IF r = 0
       THEN /\ \E t \in Responses :
                 /\ response' = <<t>>
                 /\ out' = IF through THEN <<t>> ELSE out
            /\ got' = TRUE
            /\ opc' = "check"
            /\ UNCHANGED <<result, released, id>>
       ELSE /\ Finish(Outcome(-1, 0))
            /\ UNCHANGED <<response, got, out>>
  /\ pending' = 0
  /\ UNCHANGED <<op, sends, errno, args, trace, seen, up, env>>
  /\ UNCHANGED <<rvars, tvars, wvars>>

\* The code after read_entity, whose outcome is o.
Check(f, o) ==
  /\ op = f
  /\ opc = "check"
  /\ Finish(o)
  /\ UNCHANGED <<op, sends, response, got, out, errno, args, trace, seen,
                 pending, up, env>>
  /\ UNCHANGED <<rvars, tvars, wvars>>

StatusCheck_nonempty(e, other) ==
  LET status == entity_attribute(e, S_status)
  IN IF status = NULLSTR THEN Outcome(-1, 1)
     ELSE IF Len(status) = 0 THEN Outcome(-1, 1)
     ELSE Outcome(0, 1)

\* status = entity_attribute (entity, "status");
\* NULL or empty: free, return -1; otherwise first = status[0], free,
\* return 0 when first is '2' and other when it is not.
StatusCheck(e, other) ==
  LET status == entity_attribute(e, S_status)
  IN IF status = NULLSTR THEN Outcome(-1, 1)
     ELSE IF Len(status) = 0 THEN Outcome(-1, 1)
     ELSE IF status[1] = "2" THEN Outcome(0, 1)
     ELSE Outcome(other, 1)

\* omp_get_status and omp_get_certificates: the tree is kept on a '2',
\* otherwise the status is converted with strtol and the tree is freed.
\* err is the value errno holds when the check is made: the conversion of
\* the short status strings of the model does not set it.
StatusCodeCheckAt(e, err) ==
  LET status_code == entity_attribute(e, S_status)
  IN IF status_code = NULLSTR THEN Outcome(-1, 1)
     ELSE IF Len(status_code) = 0 THEN Outcome(-1, 1)
     ELSE IF status_code[1] = "2" THEN Outcome(0, 0)
     ELSE LET r == strtol(status_code)
          IN IF err = ERANGE THEN Outcome(-1, 1) ELSE Outcome(r, 1)

StatusCodeCheck(e) == StatusCodeCheckAt(e, errno)

\* omp_get_report, omp_get_preferences: "FIX check status"; return 0.
NoCheckKeep(e) == Outcome(0, 0)

\* omp_delete_report, omp_delete_task, omp_modify_task: "FIX check
\* status"; free_entity (response); return 0.
NoCheckFree(e) == Outcome(0, 1)

\* create_task, omp_create_task: the task_id child is looked up; without
\* it the response is freed and -1 returned; with it *id is a copy of its
\* text and 0 is returned.
TaskIdCheck_last(e) ==
  LET ids == SelectSeq(e.entities, LAMBDA c : c.name = S_task_id)
  IN IF ids = <<>> THEN Outcome(-1, 1)
     ELSE [ret |-> 0, free |-> 0, id |-> entity_text(ids[Len(ids)])]
TaskIdCheck(e) ==
  LET id_entity == entity_child(e, S_task_id)
  IN IF id_entity = <<>> THEN Outcome(-1, 1)
     ELSE [ret |-> 0, free |-> 0, id |-> entity_text(id_entity[1])]

Strings == {NULLSTR, <<"x">>}
AnyArgs == {NoArgs}
IdArgs == {[NoArgs EXCEPT !.id = i] : i \in Strings}
CommentArgs == {[NoArgs EXCEPT !.comment = c] : c \in Strings}

UpperCase ==
  <<"A", "B", "C", "D", "E", "F", "G", "H", "I", "J", "K", "L", "M",
    "N", "O", "P", "Q", "R", "S", "T", "U", "V", "W", "X", "Y", "Z">>
LowerCase ==
  <<"a", "b", "c", "d", "e", "f", "g", "h", "i", "j", "k", "l", "m",
    "n", "o", "p", "q", "r", "s", "t", "u", "v", "w", "x", "y", "z">>

(***************************************************************************)
(* The rcfile of create_task and omp_create_config.  config is the memory  *)
(* the caller points at, a sequence of bytes that a zero byte follows, and *)
(* config_len the number of its bytes that make up the payload.            *)
(***************************************************************************)
MaxConfig == 2      \* bytes of a config buffer

Bytes == {0, 255}

Configs ==
  {[c |-> c, n |-> n] : c \in SeqsUpTo(Bytes, MaxConfig), n \in 0..MaxConfig}

ConfigArgs ==
  {[NoArgs EXCEPT !.config = x.c, !.config_len = x.n] :
     x \in {y \in Configs : y.n <= Len(y.c)}}

ConfigCommentArgs ==
  {[a EXCEPT !.comment = c] : a \in ConfigArgs, c \in Strings}

\* strlen: the number of bytes before the first zero byte.
strlen(b) ==
  IF \E i \in 1..Len(b) : b[i] = 0
  THEN (CHOOSE i \in 1..Len(b) :
          b[i] = 0 /\ \A j \in 1..(i - 1) : b[j] # 0) - 1
  ELSE Len(b)

Base64Alphabet ==
  UpperCase \o LowerCase
    \o <<"0", "1", "2", "3", "4", "5", "6", "7", "8", "9", "+", "/">>

\* Base64 of a sequence of bytes, without line breaks: three bytes give
\* four characters, a last group of one or two bytes is padded with '='.
RECURSIVE Base64(_)
Base64(b) ==
  IF Len(b) = 0 THEN <<>>
  ELSE IF Len(b) = 1
  THEN <<Base64Alphabet[(b[1] \div 4) + 1],
         Base64Alphabet[((b[1] % 4) * 16) + 1], "=", "=">>
  ELSE IF Len(b) = 2
  THEN <<Base64Alphabet[(b[1] \div 4) + 1],
         Base64Alphabet[((b[1] % 4) * 16) + (b[2] \div 16) + 1],
         Base64Alphabet[((b[2] % 16) * 4) + 1], "=">>
  ELSE <<Base64Alphabet[(b[1] \div 4) + 1],
         Base64Alphabet[((b[1] % 4) * 16) + (b[2] \div 16) + 1],
         Base64Alphabet[((b[2] % 16) * 4) + (b[3] \div 64) + 1],
         Base64Alphabet[(b[3] % 64) + 1]>>
         \o Base64(SubSeq(b, 4, Len(b)))

\* g_base64_encode (data, len): the strings the call may return.  For
\* len = 0 the library returns NULL or the empty string, depending on its
\* version.
g_base64_encode(data, len) ==
  IF len = 0 THEN {NULLSTR, <<>>}
  ELSE {Base64(SubSeq(data, 1, len))}

\* strlen (config) ? g_base64_encode ((guchar*) config, config_len)
\*                 : g_strdup ("")
new_task_file(config, config_len) ==
  IF strlen(config) # 0 THEN g_base64_encode(config, config_len)
  ELSE {<<>>}
ModifyArgs ==
  {[id |-> S_t1, rcfile |-> r, name |-> n, comment |-> c,
    config |-> <<>>, config_len |-> 0] :
     r \in {NULLSTR, <<>>, <<"x">>}, n \in Strings, c \in Strings}

authenticate_rejected_is_error ==
  \/ Call("authenticate", AnyArgs)
  \/ Send("authenticate",
          <<"<authenticate><credentials><username>%s</username><password>%s</password></credentials></authenticate>">>,
          SendFailed, SameAs)
  \/ Read("authenticate", FALSE)
  \/ Check("authenticate", StatusCheck(response[1], -1))
authenticate ==
  \/ Call("authenticate", AnyArgs)
  \/ Send("authenticate",
          <<"<authenticate><credentials><username>%s</username><password>%s</password></credentials></authenticate>">>,
          SendFailed, SameAs)
  \/ Read("authenticate", FALSE)
  \/ Check("authenticate", StatusCheck(response[1], 2))

omp_create_task ==
  \/ Call("omp_create_task", AnyArgs)
  \/ Send("omp_create_task",
          <<"<create_task><config>%s</config><target>%s</target><name>%s</name><comment>%s</comment></create_task>">>,
          SendFailed, MinusOne)
  \/ Read("omp_create_task", FALSE)
  \/ Check("omp_create_task", TaskIdCheck(response[1]))

\* The request of create_task and omp_create_config is kept as its format
\* and the string that stands for the %s of the rcfile element.
create_task ==
  \/ Call("create_task", ConfigArgs)
  \/ \E file \in new_task_file(args.config, args.config_len) :
       Send("create_task",
            << <<"<create_task><rcfile>%s</rcfile><name>%s</name><comment>%s</comment></create_task>",
                 file>> >>,
            SendFailed, MinusOne)
  \/ Read("create_task", FALSE)
  \/ Check("create_task", TaskIdCheck(response[1]))

start_task ==
  \/ Call("start_task", AnyArgs)
  \/ Send("start_task", <<"<start_task task_id=\"%s\"/>">>,
          SendfFailed, MinusOne)
  \/ Read("start_task", FALSE)
  \/ Check("start_task", StatusCheck(response[1], -1))

delete_task ==
  \/ Call("delete_task", AnyArgs)
  \/ Send("delete_task", <<"<delete_task task_id=\"%s\"/>">>,
          SendfFailed, MinusOne)
  \/ Read("delete_task", FALSE)
  \/ Check("delete_task", StatusCheck(response[1], -1))

omp_get_status ==
  \/ Call("omp_get_status", IdArgs)
  \/ Send("omp_get_status",
          IF args.id = NULLSTR
          THEN <<"<get_status rcfile=\"%i\"/>">>
          ELSE <<"<get_status task_id=\"%s\" rcfile=\"%i\"/>">>,
          SendfFailed, MinusOne)
  \/ Read("omp_get_status", TRUE)
  \/ Check("omp_get_status", StatusCodeCheck(response[1]))

omp_get_report ==
  \/ Call("omp_get_report", AnyArgs)
  \/ Send("omp_get_report",
          <<"<get_report format=\"nbe\" report_id=\"%s\"/>">>,
          SendFailed, MinusOne)
  \/ Read("omp_get_report", TRUE)
  \/ Check("omp_get_report", NoCheckKeep(response[1]))

omp_delete_report ==
  \/ Call("omp_delete_report", AnyArgs)
  \/ Send("omp_delete_report", <<"<delete_report report_id=\"%s\"/>">>,
          SendFailed, MinusOne)
  \/ Read("omp_delete_report", FALSE)
  \/ Check("omp_delete_report", NoCheckFree(response[1]))

omp_delete_task ==
  \/ Call("omp_delete_task", AnyArgs)
  \/ Send("omp_delete_task", <<"<delete_task task_id=\"%s\"/>">>,
          SendFailed, MinusOne)
  \/ Read("omp_delete_task", FALSE)
  \/ Check("omp_delete_task", NoCheckFree(response[1]))

\* The strings omp_modify_task sends, one send each: the opening tag, the
\* elements whose argument is not NULL, the closing tag.
ModifyTaskRequests(a) ==
  <<"<modify_task task_id=\"%s\">">>
    \o (IF a.rcfile = NULLSTR THEN <<>>
        ELSE IF Len(a.rcfile) = 0 THEN <<"<rcfile></rcfile>">>
        ELSE <<"<rcfile>%s</rcfile>">>)
    \o (IF a.name = NULLSTR THEN <<>> ELSE <<"<name>%s</name>">>)
    \o (IF a.comment = NULLSTR THEN <<>> ELSE <<"<comment>%s</comment>">>)
    \o <<"</modify_task>">>

omp_modify_task ==
  \/ Call("omp_modify_task", ModifyArgs)
  \/ Send("omp_modify_task", ModifyTaskRequests(args), SendFailed, MinusOne)
  \/ Read("omp_modify_task", FALSE)
  \/ Check("omp_modify_task", NoCheckFree(response[1]))

omp_get_preferences ==
  \/ Call("omp_get_preferences", AnyArgs)
  \/ Send("omp_get_preferences", <<"<get_preferences/>">>,
          SendFailed, MinusOne)
  \/ Read("omp_get_preferences", TRUE)
  \/ Check("omp_get_preferences", NoCheckKeep(response[1]))

omp_get_certificates ==
  \/ Call("omp_get_certificates", AnyArgs)
  \/ Send("omp_get_certificates", <<"<get_preferences/>">>,
          SendFailed, MinusOne)
  \/ Read("omp_get_certificates", TRUE)
  \/ Check("omp_get_certificates", StatusCodeCheck(response[1]))

omp_create_target ==
  \/ Call("omp_create_target", CommentArgs)
  \/ Send("omp_create_target",
          IF args.comment # NULLSTR
          THEN <<"<create_target><name>%s</name><hosts>%s</hosts><comment>%s</comment></create_target>">>
          ELSE <<"<create_target><name>%s</name><hosts>%s</hosts></create_target>">>,
          SendFailed, MinusOne)
  \/ Read("omp_create_target", FALSE)
  \/ Check("omp_create_target", StatusCheck(response[1], -1))

omp_delete_target ==
  \/ Call("omp_delete_target", AnyArgs)
  \/ Send("omp_delete_target",
          <<"<delete_target><name>%s</name></delete_target>">>,
          SendFailed, MinusOne)
  \/ Read("omp_delete_target", FALSE)
  \/ Check("omp_delete_target", StatusCheck(response[1], -1))

omp_create_config ==
  \/ Call("omp_create_config", ConfigCommentArgs)
  \/ \E file \in new_task_file(args.config, args.config_len) :
       Send("omp_create_config",
            IF args.comment # NULLSTR
            THEN << <<"<create_config><name>%s</name><comment>%s</comment><rcfile>%s</rcfile></create_config>",
                      file>> >>
            ELSE << <<"<create_config><name>%s</name><rcfile>%s</rcfile></create_config>",
                      file>> >>,
            SendFailed, MinusOne)
  \/ Read("omp_create_config", FALSE)
  \/ Check("omp_create_config", StatusCheck(response[1], -1))

omp_delete_config ==
  \/ Call("omp_delete_config", AnyArgs)
  \/ Send("omp_delete_config",
          <<"<delete_config><name>%s</name></delete_config>">>,
          SendFailed, MinusOne)
  \/ Read("omp_delete_config", FALSE)
  \/ Check("omp_delete_config", StatusCheck(response[1], -1))

(***************************************************************************)
(* Polling loops (omp.c:415-760).  Each iteration sends a status request,  *)
(* reads one response, classifies it and either returns or sleeps for a    *)
(* second and starts over.                                                 *)
(***************************************************************************)
MaxPolls == 2       \* sleeps of one polling loop

S_id == <<"i", "d">>
S_task == <<"t", "a", "s", "k">>
S_Task == <<"T", "a", "s", "k">>
S_T1 == <<"T", "1">>
S_t2 == <<"t", "2">>
S_200 == <<"2", "0", "0">>
S_400 == <<"4", "0", "0">>
S_Requested == <<"R", "e", "q", "u", "e", "s", "t", "e", "d">>
S_Running == <<"R", "u", "n", "n", "i", "n", "g">>
S_Done == <<"D", "o", "n", "e">>
S_Stopped == <<"S", "t", "o", "p", "p", "e", "d">>
S_InternalError ==
  <<"I", "n", "t", "e", "r", "n", "a", "l", " ", "E", "r", "r", "o", "r">>

tolower(c) ==
  IF \E i \in 1..26 : UpperCase[i] = c
  THEN LowerCase[CHOOSE i \in 1..26 : UpperCase[i] = c]
  ELSE c

\* strcasecmp and strcmp, of which the code only tests the result against
\* 0: 0 when the strings are equal (ignoring case), 1 otherwise.
strcasecmp(a, b) ==
  IF Len(a) = Len(b) /\ \A i \in 1..Len(a) : tolower(a[i]) = tolower(b[i])
  THEN 0 ELSE 1

strcmp_differs(a, b) == 1
strcmp(a, b) == IF a = b THEN 0 ELSE 1

\* A task element of a status response: <name id="..."><status>state
\* </status></name>, without the attribute when tid is NULL and without
\* the status child when state is NULL.
Task(name, tid, state) ==
  [name |-> name, text |-> <<>>,
   attributes |-> IF tid = NULLSTR THEN NoAttributes
                  ELSE HashInsert(NoAttributes, S_id, tid),
   entities |-> IF state = NULLSTR THEN <<>>
                ELSE << [name |-> S_status, text |-> state,
                         attributes |-> NoAttributes, entities |-> <<>>] >>]

RunStates == {S_Requested, S_Running, S_Done, S_Stopped, S_InternalError}

\* The children of the status responses the manager may send: no task, the
\* target task in each run state, the target after another task, the
\* target listed twice, a task without an id before the target, the target
\* without a status, another task only, and the target in capitals.
TaskLists ==
  {<<>>}
    \cup {<<Task(S_task, S_t1, s)>> : s \in RunStates}
    \cup {<<Task(S_task, S_t2, S_Done), Task(S_task, S_t1, S_Running)>>,
          <<Task(S_task, S_t1, S_Running), Task(S_task, S_t1, S_Done)>>,
          <<Task(S_task, NULLSTR, S_Done), Task(S_task, S_t1, S_Done)>>,
          <<Task(S_task, S_t1, NULLSTR)>>,
          <<Task(S_task, S_t2, S_Done)>>,
          <<Task(S_Task, S_T1, S_Done)>>}

StatusResponse(attributes, tasks) ==
  [name |-> <<"r">>, text |-> <<>>, attributes |-> attributes,
   entities |-> tasks]

StatusResponses ==
  {StatusResponse(HashInsert(NoAttributes, S_status, S_200), l) :
     l \in TaskLists}
    \cup {StatusResponse(HashInsert(NoAttributes, S_status, S_400), l) :
            l \in {<<>>, <<Task(S_task, S_t1, S_Done)>>}}
    \cup {StatusResponse(a, <<Task(S_task, S_t1, S_Done)>>) :
            a \in {NoAttributes, HashInsert(NoAttributes, S_status, <<>>)}}

\* A manager that answers every request with a class-2 response that
\* lists the target task, and with a terminal run state of the target from
\* some request on (env = "good"); a manager that answers every request
\* with a status that is not of class 2 (env = "refusing"); any manager and
\* a transport that may fail (env = "any").
ListingLists == TaskLists \ {<<>>, <<Task(S_task, S_t2, S_Done)>>}

TerminalLists ==
  {<<Task(S_task, S_t1, s)>> : s \in {S_Done, S_Stopped, S_InternalError}}
    \cup {<<Task(S_task, NULLSTR, S_Done), Task(S_task, S_t1, S_Done)>>,
          <<Task(S_Task, S_T1, S_Done)>>}

Offered ==
  IF env = "good"
  THEN {StatusResponse(HashInsert(NoAttributes, S_status, S_200), l) :
          l \in IF Len(seen) < MaxPolls THEN ListingLists
                ELSE TerminalLists}
  ELSE IF env = "refusing"
  THEN {t \in StatusResponses :
          /\ entity_attribute(t, S_status) # NULLSTR
          /\ entity_attribute(t, S_status) # <<>>
          /\ entity_attribute(t, S_status)[1] # "2"}
  ELSE StatusResponses

SendResults == IF env = "any" THEN openvas_server_send ELSE {0}
ReadResults == IF env = "any" THEN read_entity ELSE {0}

\* The history variables keep the first events of a loop only.
Record(history, x, cap) ==
  IF Len(history) < cap THEN Append(history, x) ELSE history

WaitArgs == {[NoArgs EXCEPT !.id = S_t1]}

\* The iteration goes on to sleep (1) after n calls of free_entity.
Again(n) == [ret |-> 0, free |-> n, id |-> NULLSTR, again |-> TRUE]

\* if (openvas_server_sendf (session, request) == -1) return -1;
PollSend(f, request) ==
  /\ op = f
  /\ opc = "send"
  /\ \E r \in SendResults :
       IF r \in SendfFailed
       THEN /\ Finish(Outcome(-1, 0))
            /\ UNCHANGED <<sends, pending, trace>>
       ELSE /\ sends' = Record(sends, request, MaxPolls + 1)
            /\ opc' = AfterSend(1, 1)
            /\ pending' = Sent(pending, 1, 1)
            /\ trace' = Record(trace, "send", 3 * (MaxPolls + 1))
            /\ UNCHANGED <<result, released, id>>
  /\ UNCHANGED <<op, response, got, out, errno, args, seen, up, env>>
  /\ UNCHANGED <<rvars, tvars, wvars>>

\* entity_t entity = NULL; if (read_entity (session, &entity)) return -1;
PollRead(f) ==
  /\ op = f
  /\ opc = "read"
  /\ \E r \in ReadResults :
       IF r = 0
       THEN /\ \E t \in Offered :
                 /\ response' = <<t>>
                 /\ seen' = Record(seen, t, MaxPolls + 1)
            /\ got' = TRUE
            /\ opc' = "check"
            /\ trace' = Record(trace, "read", 3 * (MaxPolls + 1))
            /\ UNCHANGED <<result, id>>
       ELSE /\ response' = <<>>
            /\ got' = FALSE
            /\ opc' = "done"
            /\ result' = -1
            /\ UNCHANGED <<seen, trace, id>>
  /\ released' = 0
  /\ pending' = 0
  /\ UNCHANGED <<op, sends, out, errno, args, up, env>>
  /\ UNCHANGED <<rvars, tvars, wvars>>

\* The code between read_entity and sleep (1), whose outcome is o.
PollCheck_no_sleep(f, o) ==
  /\ op = f
  /\ opc = "check"
  /\ IF "again" \in DOMAIN o
     THEN /\ opc' = "send"
          /\ released' = released + o.free
          /\ UNCHANGED <<result, id>>
     ELSE Finish(o)
  /\ UNCHANGED <<op, sends, response, got, out, errno, args, trace, seen,
                 pending, up, env>>
  /\ UNCHANGED <<rvars, tvars, wvars>>
PollCheck(f, o) ==
  /\ op = f
  /\ opc = "check"
  /\ IF "again" \in DOMAIN o
     THEN /\ opc' = "sleep"
          /\ released' = released + o.free
          /\ UNCHANGED <<result, id>>
     ELSE Finish(o)
  /\ UNCHANGED <<op, sends, response, got, out, errno, args, trace, seen,
                 pending, up, env>>
  /\ UNCHANGED <<rvars, tvars, wvars>>

\* sleep (1); and back to the top of while (1).
Sleep(f) ==
  /\ op = f
  /\ opc = "sleep"
  /\ env # "any" \/ Len(seen) <= MaxPolls
  /\ opc' = "send"
  /\ trace' = Record(trace, "sleep", 3 * (MaxPolls + 1))
  /\ UNCHANGED <<op, sends, response, got, released, out, id, errno, args,
                 result, seen, pending, up, env>>
  /\ UNCHANGED <<rvars, tvars, wvars>>

\* DO_CHILDREN over the children of the response, with the body of the
\* wait_for_task_start, _end and _stop loops: the first child named task
\* (whatever the case) whose id is the target's (whatever the case) gives
\* the run state; a task without an id, or the matching task without a
\* status child, ends the function.
RECURSIVE DO_CHILDREN(_, _)
DO_CHILDREN_last(temp, tid) ==
  IF temp = <<>>
  THEN [failed |-> FALSE, run_state |-> NULLSTR]
  ELSE LET child == Head(temp)
           later == DO_CHILDREN(Tail(temp), tid) IN
       IF strcasecmp(child.name, S_task) = 0
          /\ entity_attribute(child, S_id) # NULLSTR
          /\ strcasecmp(entity_attribute(child, S_id), tid) = 0
          /\ entity_child(child, S_status) # <<>>
          /\ later.run_state = NULLSTR
       THEN [failed |-> FALSE,
             run_state |-> entity_text(entity_child(child, S_status)[1])]
       ELSE later
DO_CHILDREN(temp, tid) ==
  IF temp = <<>>
  THEN [failed |-> FALSE, run_state |-> NULLSTR]
  ELSE LET child == Head(temp) IN
       IF strcasecmp(child.name, S_task) = 0
       THEN LET task_id == entity_attribute(child, S_id) IN
            IF task_id = NULLSTR
            THEN [failed |-> TRUE, run_state |-> NULLSTR]
            ELSE IF strcasecmp(task_id, tid) = 0
            THEN LET status == entity_child(child, S_status) IN
                 IF status = <<>>
                 THEN [failed |-> TRUE, run_state |-> NULLSTR]
                 ELSE [failed |-> FALSE,
                       run_state |-> entity_text(status[1])]
            ELSE DO_CHILDREN(Tail(temp), tid)
       ELSE DO_CHILDREN(Tail(temp), tid)

\* The part the three loops share, from entity_attribute (entity, "status")
\* to the end of DO_CHILDREN: "failed" (free_entity and return -1), "other"
\* (status not of class 2: straight to sleep), or "listed" with the run
\* state found, NULL when no task matched.
RunState(e, tid) ==
  LET status == entity_attribute(e, S_status) IN
  IF status = NULLSTR THEN [kind |-> "failed", run_state |-> NULLSTR]
  ELSE IF Len(status) = 0 THEN [kind |-> "failed", run_state |-> NULLSTR]
  ELSE IF status[1] = "2"
  THEN LET found == DO_CHILDREN(e.entities, tid) IN
       IF found.failed THEN [kind |-> "failed", run_state |-> NULLSTR]
       ELSE [kind |-> "listed", run_state |-> found.run_state]
  ELSE [kind |-> "other", run_state |-> NULLSTR]

\* What a loop does with a response that is not of class 2: nothing, the
\* entity is still allocated when sleep (1) is reached.
NotClass2_fails == Outcome(-1, 1)
NotClass2 == Again(0)

TaskStartCheck_done_only(e, tid) ==
  LET r == RunState(e, tid) IN
  IF r.kind = "failed" THEN Outcome(-1, 1)
  ELSE IF r.kind = "other" THEN NotClass2
  ELSE IF r.run_state = NULLSTR THEN Outcome(-1, 1)
  ELSE IF strcmp(r.run_state, S_Done) = 0 THEN Outcome(0, 1)
  ELSE IF strcmp(r.run_state, S_InternalError) = 0 THEN Outcome(1, 1)
  ELSE Again(1)
TaskStartCheck(e, tid) ==
  LET r == RunState(e, tid) IN
  IF r.kind = "failed" THEN Outcome(-1, 1)
  ELSE IF r.kind = "other" THEN NotClass2
  ELSE IF r.run_state = NULLSTR THEN Outcome(-1, 1)
  ELSE IF strcmp(r.run_state, S_Running) = 0
          \/ strcmp(r.run_state, S_Done) = 0 THEN Outcome(0, 1)
  ELSE IF strcmp(r.run_state, S_InternalError) = 0 THEN Outcome(1, 1)
  ELSE Again(1)

TaskEndCheck_stopped_polls(e, tid) ==
  LET r == RunState(e, tid) IN
  IF r.kind = "failed" THEN Outcome(-1, 1)
  ELSE IF r.kind = "other" THEN NotClass2
  ELSE IF r.run_state = NULLSTR THEN Outcome(-1, 1)
  ELSE IF strcmp(r.run_state, S_Done) = 0 THEN Outcome(0, 1)
  ELSE IF strcmp(r.run_state, S_InternalError) = 0 THEN Outcome(1, 1)
  ELSE Again(1)
TaskEndCheck(e, tid) ==
  LET r == RunState(e, tid) IN
  IF r.kind = "failed" THEN Outcome(-1, 1)
  ELSE IF r.kind = "other" THEN NotClass2
  ELSE IF r.run_state = NULLSTR THEN Outcome(-1, 1)
  ELSE IF strcmp(r.run_state, S_Done) = 0 THEN Outcome(0, 1)
  ELSE IF strcmp(r.run_state, S_InternalError) = 0 THEN Outcome(1, 1)
  ELSE IF strcmp(r.run_state, S_Stopped) = 0 THEN Outcome(1, 1)
  ELSE Again(1)

TaskStopCheck_minus_one(e, tid) ==
  LET r == RunState(e, tid) IN
  IF r.kind = "failed" THEN Outcome(-1, 1)
  ELSE IF r.kind = "other" THEN NotClass2
  ELSE IF r.run_state = NULLSTR THEN Outcome(-1, 1)
  ELSE IF strcmp(r.run_state, S_Stopped) = 0 THEN Outcome(0, 1)
  ELSE IF strcmp(r.run_state, S_Done) = 0 THEN Outcome(0, 1)
  ELSE IF strcmp(r.run_state, S_InternalError) = 0 THEN Outcome(1, 1)
  ELSE Again(1)
TaskStopCheck(e, tid) ==
  LET r == RunState(e, tid) IN
  IF r.kind = "failed" THEN Outcome(-1, 1)
  ELSE IF r.kind = "other" THEN NotClass2
  ELSE IF r.run_state = NULLSTR THEN Outcome(-2, 1)
  ELSE IF strcmp(r.run_state, S_Stopped) = 0 THEN Outcome(0, 1)
  ELSE IF strcmp(r.run_state, S_Done) = 0 THEN Outcome(0, 1)
  ELSE IF strcmp(r.run_state, S_InternalError) = 0 THEN Outcome(1, 1)
  ELSE Again(1)

\* task_status: the text of the status child of the first child named
\* task, NULL when either is missing.
task_status_class2(e) ==
  LET task == entity_child(e, S_task) IN
  IF task # <<>> /\ entity_attribute(e, S_status) = S_200
  THEN LET status == entity_child(task[1], S_status) IN
       IF status # <<>> THEN entity_text(status[1]) ELSE NULLSTR
  ELSE NULLSTR
task_status(e) ==
  LET task == entity_child(e, S_task) IN
  IF task # <<>>
  THEN LET status == entity_child(task[1], S_status) IN
       IF status # <<>> THEN entity_text(status[1]) ELSE NULLSTR
  ELSE NULLSTR

\* status = task_status (entity); free_entity (entity);
\* if (status == NULL) break;  ...  return 0;
TaskDeleteCheck_status_ends(e) ==
  IF task_status(e) = NULLSTR THEN Again(1) ELSE Outcome(0, 1)
TaskDeleteCheck(e) ==
  IF task_status(e) = NULLSTR THEN Outcome(0, 1) ELSE Again(1)

wait_for_task_start ==
  \/ Call("wait_for_task_start", WaitArgs)
  \/ PollSend("wait_for_task_start", "<get_status/>")
  \/ PollRead("wait_for_task_start")
  \/ PollCheck("wait_for_task_start", TaskStartCheck(response[1], args.id))
  \/ Sleep("wait_for_task_start")

wait_for_task_end ==
  \/ Call("wait_for_task_end", WaitArgs)
  \/ PollSend("wait_for_task_end", "<get_status/>")
  \/ PollRead("wait_for_task_end")
  \/ PollCheck("wait_for_task_end", TaskEndCheck(response[1], args.id))
  \/ Sleep("wait_for_task_end")

wait_for_task_stop ==
  \/ Call("wait_for_task_stop", WaitArgs)
  \/ PollSend("wait_for_task_stop", "<get_status/>")
  \/ PollRead("wait_for_task_stop")
  \/ PollCheck("wait_for_task_stop", TaskStopCheck(response[1], args.id))
  \/ Sleep("wait_for_task_stop")

wait_for_task_delete ==
  \/ Call("wait_for_task_delete", WaitArgs)
  \/ PollSend("wait_for_task_delete", "<get_status task_id=\"%s\"/>")
  \/ PollRead("wait_for_task_delete")
  \/ PollCheck("wait_for_task_delete", TaskDeleteCheck(response[1]))
  \/ Sleep("wait_for_task_delete")

(***************************************************************************)
(* omp_until_up (omp.c:1070-1078): while ((ret = function (session,        *)
(* response)) == 503); return ret;                                         *)
(***************************************************************************)
MaxUp == 2          \* results 503 of the function within one omp_until_up

\* The operations of this file that have the type of the function argument.
UpFunctions == {"omp_get_preferences", "omp_get_certificates"}

\* The loop condition on the result of the function.
UpAgain_nonzero(r) == r # 0
UpAgain(r) == r = 503

\* omp_until_up is called and makes the first call of the function.
UpCall(fn) ==
  /\ opc \in {"idle", "done"}
  /\ up.fn = "none"
  /\ Enter(fn, AnyArgs)
  /\ up' = [fn |-> fn, n |-> 1, calls |-> <<>>]

\* The function has returned: its result is tested, and either the
\* function is called again or omp_until_up returns the result.
UpTest ==
  /\ opc = "done"
  /\ up.fn # "none"
  /\ IF UpAgain(result)
     THEN /\ Len(up.calls) < MaxUp
          /\ Enter(up.fn, {args})
          /\ up' = [up EXCEPT !.n = @ + 1, !.calls = Append(@, result)]
     ELSE /\ op' = "omp_until_up"
          /\ up' = [up EXCEPT !.fn = "none", !.calls = Append(@, result)]
          /\ UNCHANGED <<opc, sends, response, got, released, out, id, errno,
                         args, result, trace, seen, pending, env>>
          /\ UNCHANGED <<rvars, tvars, wvars>>

omp_until_up ==
  \/ \E fn \in UpFunctions : UpCall(fn)
  \/ UpTest

InitOmp ==
  /\ ReaderIdle
  /\ WmiIdle
  /\ TreeIdle
  /\ op = "none"
  /\ opc = "idle"
  /\ sends = <<>>
  /\ response = <<>>
  /\ got = FALSE
  /\ released = 0
  /\ out = <<>>
  /\ id = NULLSTR
  /\ errno \in {0, ERANGE}
  /\ args = NoArgs
  /\ result = 0
  /\ trace = <<>>
  /\ seen = <<>>
  /\ pending = 0
  /\ up = NoUp
  /\ env = "any"

NextOmp ==
  \/ authenticate
  \/ omp_create_task
  \/ create_task
  \/ start_task
  \/ delete_task
  \/ omp_get_status
  \/ omp_get_report
  \/ omp_delete_report
  \/ omp_delete_task
  \/ omp_modify_task
  \/ omp_get_preferences
  \/ omp_get_certificates
  \/ omp_create_target
  \/ omp_delete_target
  \/ omp_create_config
  \/ omp_delete_config
  \/ wait_for_task_start
  \/ wait_for_task_end
  \/ wait_for_task_stop
  \/ wait_for_task_delete
  \/ omp_until_up

SpecOmp == InitOmp /\ [][NextOmp]_vars

\* wait_for_task_end alone on a session whose transport never fails and
\* whose manager is as described at Offered.  The function runs to its
\* next step whenever it has one: sends, reads and sleep (1) return.
InitEnd ==
  /\ ReaderIdle
  /\ WmiIdle
  /\ TreeIdle
  /\ op = "none"
  /\ opc = "idle"
  /\ sends = <<>>
  /\ response = <<>>
  /\ got = FALSE
  /\ released = 0
  /\ out = <<>>
  /\ id = NULLSTR
  /\ errno \in {0, ERANGE}
  /\ args = NoArgs
  /\ result = 0
  /\ trace = <<>>
  /\ seen = <<>>
  /\ pending = 0
  /\ up = NoUp
  /\ env = "good"

NextEnd == wait_for_task_end

\* wait_for_task_start, _end and _stop on a session whose transport never
\* fails and whose manager refuses every status request.
InitRefused ==
  /\ ReaderIdle
  /\ WmiIdle
  /\ TreeIdle
  /\ op = "none"
  /\ opc = "idle"
  /\ sends = <<>>
  /\ response = <<>>
  /\ got = FALSE
  /\ released = 0
  /\ out = <<>>
  /\ id = NULLSTR
  /\ errno \in {0, ERANGE}
  /\ args = NoArgs
  /\ result = 0
  /\ trace = <<>>
  /\ seen = <<>>
  /\ pending = 0
  /\ up = NoUp
  /\ env = "refusing"

NextRefused == wait_for_task_start \/ wait_for_task_end \/ wait_for_task_stop

SpecRefused == InitRefused /\ [][NextRefused]_vars

SpecEnd == InitEnd /\ [][NextEnd]_vars /\ WF_vars(NextEnd)

(***************************************************************************)
(* Properties of the protocol operations.                                  *)
(***************************************************************************)
Done(f) == op = f /\ opc = "done"

\* The status attribute of the response that was read, <<>> when the
\* response has none.
StatusOf(e) ==
  {kv[2] : kv \in {x \in e.attributes.table : x[1] = S_status}}

\* The response carries a status that is not empty and begins with '2'.
Class2(e) == \E v \in StatusOf(e) : v # <<>> /\ v[1] = "2"

\* The string is a decimal number.
Numeric(v) == v # <<>> /\ \A i \in 1..Len(v) : IsDigit(v[i])

RECURSIVE Decimal(_)
Decimal(v) ==
  IF v = <<>> THEN 0
  ELSE 10 * Decimal(SubSeq(v, 1, Len(v) - 1)) + DigitValue(v[Len(v)])

FireAndCheck ==
  {"start_task", "delete_task", "omp_create_target", "omp_delete_target",
   "omp_create_config", "omp_delete_config"}

\* C6: start_task, delete_task, omp_create_target, omp_delete_target,
\* omp_create_config and omp_delete_config return 0 exactly when the
\* request was sent, a response was read and its status attribute is
\* present, not empty and begins with '2'; otherwise they return -1.
FireAndCheckResult ==
  (op \in FireAndCheck /\ opc = "done")
    => /\ result \in {0, -1}
       /\ result = 0 <=> (sends # <<>> /\ got /\ Class2(response[1]))

\* omp_delete_config read a response with status "201" and returned 0.
ConfigDeleted ==
  /\ Done("omp_delete_config")
  /\ got
  /\ StatusOf(response[1]) = {<<"2", "0", "1">>}
  /\ result = 0
  /\ released = 1

Unchecked ==
  {"omp_modify_task", "omp_delete_task", "omp_delete_report",
   "omp_get_report", "omp_get_preferences"}

\* C7: omp_modify_task, omp_delete_task, omp_delete_report, omp_get_report
\* and omp_get_preferences do not return 0 when the response's status is
\* absent, empty or does not begin with '2'.
NonSuccessNotZero ==
  (op \in Unchecked /\ opc = "done" /\ got /\ ~Class2(response[1]))
    => result # 0

Passthrough == {"omp_get_status", "omp_get_certificates"}

\* C8: omp_get_status and omp_get_certificates return 0 on a status that
\* begins with '2', the numeric value of a numeric status that does not,
\* and -1 when the status is absent, empty or not a number.
StatusCodeResult ==
  (op \in Passthrough /\ opc = "done" /\ got)
    => LET st == StatusOf(response[1])
       IN /\ Class2(response[1]) => result = 0
          /\ \A v \in st : (Numeric(v) /\ v[1] # "2") => result = Decimal(v)
          /\ (st = {} \/ \E v \in st : ~Numeric(v) /\ ~Class2(response[1]))
               => result = -1

\* C9: when omp_get_status or omp_get_certificates returns 0 the caller's
\* pointer holds the response and it has not been released; when it
\* returns non-zero a response that was read has been released once.
HandedOverOrReleased ==
  (op \in Passthrough /\ opc = "done")
    => /\ result = 0 => (got /\ out = response /\ released = 0)
       /\ result # 0 => released = (IF got THEN 1 ELSE 0)

Local ==
  {"authenticate", "start_task", "delete_task", "create_task",
   "omp_create_task", "omp_delete_task", "omp_modify_task",
   "omp_delete_report", "omp_create_target", "omp_delete_target",
   "omp_create_config", "omp_delete_config"}

\* C10: an operation that keeps the response to itself has, when it
\* returns, released the response it read exactly once.
ResponseReleasedOnce ==
  (op \in Local /\ opc = "done")
    => released = (IF got THEN 1 ELSE 0)

(***************************************************************************)
(* Properties of the polling loops.                                        *)
(***************************************************************************)
WaitOps ==
  {"wait_for_task_start", "wait_for_task_end", "wait_for_task_stop",
   "wait_for_task_delete"}

\* The loop f has just classified the response it read in this iteration:
\* it is about to sleep, or it has returned.
JustChecked(f) ==
  /\ op = f
  /\ opc \in {"sleep", "done"}
  /\ trace # <<>>
  /\ trace[Len(trace)] = "read"

Returned(r) == opc = "done" /\ result = r

\* C11: in wait_for_task_start, _end, _stop and _delete the response read
\* in an iteration has been released exactly once when the iteration is
\* over, that is before the next request is sent and when the function
\* returns, whatever the response contains.
PolledResponseReleasedOnce ==
  (op \in WaitOps /\ got /\ opc \in {"sleep", "send", "done"})
    => released = 1

\* The task children of a response: the places of the children named task,
\* of those that carry the target id, and of those that carry no id.
TaskPlaces(e) ==
  {i \in 1..Len(e.entities) : strcasecmp(e.entities[i].name, S_task) = 0}

TargetPlaces(e, tid) ==
  {i \in TaskPlaces(e) :
     \E kv \in e.entities[i].attributes.table :
       kv[1] = S_id /\ strcasecmp(kv[2], tid) = 0}

NamelessPlaces(e) ==
  {i \in TaskPlaces(e) :
     \A kv \in e.entities[i].attributes.table : kv[1] # S_id}

\* The run states the response gives for the target task: the texts of the
\* status children of the first task child that carries the target id.
TargetRunStates(e, tid) ==
  IF TargetPlaces(e, tid) = {} THEN {}
  ELSE LET i == CHOOSE j \in TargetPlaces(e, tid) :
                  \A k \in TargetPlaces(e, tid) : j <= k
           c == e.entities[i].entities
       IN {c[j].text : j \in {k \in 1..Len(c) : c[k].name = S_status}}

\* No task child without an id stands before the target task, nor anywhere
\* in a response that does not list the target.
IdsBeforeTarget(e, tid) ==
  \A i \in NamelessPlaces(e) : \E j \in TargetPlaces(e, tid) : j < i

\* The statement of C12 as written: wait_for_task_end, on a class-2
\* response, returns 0 when the target's run state is "Done", 1 when it is
\* "Internal Error" or "Stopped", polls again on any other run state and
\* returns -1 when no task child carries the target id.
TaskEndByRunState ==
  (JustChecked("wait_for_task_end") /\ Class2(response[1]))
    => LET e == response[1]
           s == TargetRunStates(e, args.id)
       IN /\ S_Done \in s => Returned(0)
          /\ (S_InternalError \in s \/ S_Stopped \in s) => Returned(1)
          /\ (s # {} /\ s \cap {S_Done, S_InternalError, S_Stopped} = {})
               => opc = "sleep"
          /\ TargetPlaces(e, args.id) = {} => Returned(-1)

\* The responses before the last one read by the loop did not end it: none
\* is a class-2 response for which ends holds.
EarlierResponsesPoll(ends) ==
  \A i \in 1..(Len(seen) - 1) : ~(Class2(seen[i]) /\ seen[i] \in ends)

\* The class-2 responses at which wait_for_task_end is to return.
EndsTaskEnd ==
  {e \in StatusResponses :
     /\ IdsBeforeTarget(e, S_t1)
     /\ \/ TargetPlaces(e, S_t1) = {}
        \/ TargetRunStates(e, S_t1)
             \cap {S_Done, S_InternalError, S_Stopped} # {}}

\* C12: wait_for_task_end, on a class-2 response in which no task child
\* without an id stands before the target task, returns 0 when the
\* target's run state is "Done", 1 when it is "Internal Error" or
\* "Stopped", polls again on any other run state and returns -1 when no
\* task child carries the target id; it returns at the first such response.
TaskEndByRunStateListed ==
  (JustChecked("wait_for_task_end") /\ Class2(response[1])
     /\ IdsBeforeTarget(response[1], args.id))
    => LET e == response[1]
           s == TargetRunStates(e, args.id)
       IN /\ S_Done \in s => Returned(0)
          /\ (S_InternalError \in s \/ S_Stopped \in s) => Returned(1)
          /\ (s # {} /\ s \cap {S_Done, S_InternalError, S_Stopped} = {})
               => opc = "sleep"
          /\ TargetPlaces(e, args.id) = {} => Returned(-1)
          /\ EarlierResponsesPoll(EndsTaskEnd)

\* wait_for_task_end has polled through "Requested" and returned 1 at
\* "Stopped".
StoppedAfterRequested ==
  /\ Done("wait_for_task_end")
  /\ result = 1
  /\ Len(seen) = 2
  /\ TargetRunStates(seen[1], args.id) = {S_Requested}
  /\ TargetRunStates(seen[2], args.id) = {S_Stopped}

\* The statement of C13 as written: wait_for_task_start, on a class-2
\* response that lists the target task, returns 0 when the target's run
\* state is "Running" or "Done", 1 when it is "Internal Error", and sleeps
\* and polls again on any other run state.
TaskStartByRunState ==
  (JustChecked("wait_for_task_start") /\ Class2(response[1])
     /\ TargetPlaces(response[1], args.id) # {})
    => LET s == TargetRunStates(response[1], args.id)
       IN /\ (S_Running \in s \/ S_Done \in s) => Returned(0)
          /\ S_InternalError \in s => Returned(1)
          /\ (s # {} /\ s \cap {S_Running, S_Done, S_InternalError} = {})
               => opc = "sleep"

\* The class-2 listings of the target at which wait_for_task_start is to
\* return.
EndsTaskStart ==
  {e \in StatusResponses :
     /\ IdsBeforeTarget(e, S_t1)
     /\ TargetRunStates(e, S_t1)
          \cap {S_Running, S_Done, S_InternalError} # {}}

\* C13: wait_for_task_start, on a class-2 response that lists the target
\* task with no task child without an id before it, returns 0 when the
\* target's run state is "Running" or "Done", 1 when it is "Internal
\* Error", and sleeps and polls again on any other run state; it returns
\* at the first such response.
TaskStartByRunStateListed ==
  (JustChecked("wait_for_task_start") /\ Class2(response[1])
     /\ TargetPlaces(response[1], args.id) # {}
     /\ IdsBeforeTarget(response[1], args.id))
    => LET s == TargetRunStates(response[1], args.id)
       IN /\ (S_Running \in s \/ S_Done \in s) => Returned(0)
          /\ S_InternalError \in s => Returned(1)
          /\ (s # {} /\ s \cap {S_Running, S_Done, S_InternalError} = {})
               => opc = "sleep"
          /\ EarlierResponsesPoll(EndsTaskStart)

\* wait_for_task_start has polled through "Requested" twice and returned 0
\* at "Running".
RunningAfterRequested ==
  /\ Done("wait_for_task_start")
  /\ result = 0
  /\ Len(seen) = 3
  /\ TargetRunStates(seen[1], args.id) = {S_Requested}
  /\ TargetRunStates(seen[2], args.id) = {S_Requested}
  /\ TargetRunStates(seen[3], args.id) = {S_Running}

\* The statement of C14 as written: wait_for_task_stop, on a class-2
\* response, returns 0 when the target's run state is "Stopped" or "Done",
\* 1 when it is "Internal Error", -2 when no task child carries the target
\* id, and polls again on any other run state.
TaskStopByRunState ==
  (JustChecked("wait_for_task_stop") /\ Class2(response[1]))
    => LET e == response[1]
           s == TargetRunStates(e, args.id)
       IN /\ (S_Stopped \in s \/ S_Done \in s) => Returned(0)
          /\ S_InternalError \in s => Returned(1)
          /\ TargetPlaces(e, args.id) = {} => Returned(-2)
          /\ (s # {} /\ s \cap {S_Stopped, S_Done, S_InternalError} = {})
               => opc = "sleep"

\* The class-2 responses at which wait_for_task_stop is to return.
EndsTaskStop ==
  {e \in StatusResponses :
     /\ IdsBeforeTarget(e, S_t1)
     /\ \/ TargetPlaces(e, S_t1) = {}
        \/ TargetRunStates(e, S_t1)
             \cap {S_Stopped, S_Done, S_InternalError} # {}}

\* C14: wait_for_task_stop, on a class-2 response in which no task child
\* without an id stands before the target task, returns 0 when the
\* target's run state is "Stopped" or "Done", 1 when it is "Internal
\* Error", -2 when no task child carries the target id, and polls again on
\* any other run state; -1 is returned only when the send or the read
\* failed, the status is absent or empty, a task child has no id or the
\* target has no status child.
TaskStopByRunStateListed ==
  /\ (JustChecked("wait_for_task_stop") /\ Class2(response[1])
        /\ IdsBeforeTarget(response[1], args.id))
       => LET e == response[1]
              s == TargetRunStates(e, args.id)
          IN /\ (S_Stopped \in s \/ S_Done \in s) => Returned(0)
             /\ S_InternalError \in s => Returned(1)
             /\ TargetPlaces(e, args.id) = {} => Returned(-2)
             /\ (s # {} /\ s \cap {S_Stopped, S_Done, S_InternalError} = {})
                  => opc = "sleep"
             /\ EarlierResponsesPoll(EndsTaskStop)
  /\ (Done("wait_for_task_stop") /\ result = -2)
       => (JustChecked("wait_for_task_stop") /\ Class2(response[1])
             /\ TargetPlaces(response[1], args.id) = {})
  /\ (Done("wait_for_task_stop") /\ result = -1)
       => \/ ~JustChecked("wait_for_task_stop")
          \/ ~Class2(response[1])
          \/ ~IdsBeforeTarget(response[1], args.id)
          \/ (TargetPlaces(response[1], args.id) # {}
                /\ TargetRunStates(response[1], args.id) = {})

\* wait_for_task_stop has polled once and returned -2 at a class-2 response
\* that lists another task only.
TaskVanished ==
  /\ Done("wait_for_task_stop")
  /\ result = -2
  /\ Len(seen) = 2
  /\ TargetRunStates(seen[1], args.id) = {S_Running}
  /\ TaskPlaces(seen[2]) # {}
  /\ TargetPlaces(seen[2], args.id) = {}

\* The response carries a task status text: its first child named task has
\* a child named status.
CarriesTaskStatus(e) ==
  LET tasks == {i \in 1..Len(e.entities) : e.entities[i].name = S_task}
  IN /\ tasks # {}
     /\ LET i == CHOOSE j \in tasks : \A k \in tasks : j <= k
        IN \E j \in 1..Len(e.entities[i].entities) :
             e.entities[i].entities[j].name = S_status

\* C15: wait_for_task_delete sends the status query of the one task in
\* every iteration, returns 0 at the first response that carries no task
\* status text, sleeps and sends again while the responses carry one, and
\* returns -1 when a send or a read fails.
TaskDeleteByStatus ==
  op = "wait_for_task_delete"
    => /\ \A i \in 1..Len(sends) : sends[i] = "<get_status task_id=\"%s\"/>"
       /\ JustChecked("wait_for_task_delete")
            => /\ ~CarriesTaskStatus(response[1]) => Returned(0)
               /\ CarriesTaskStatus(response[1]) => opc = "sleep"
               /\ \A i \in 1..(Len(seen) - 1) : CarriesTaskStatus(seen[i])
       /\ opc = "done"
            => \/ JustChecked("wait_for_task_delete") /\ result = 0
               \/ ~JustChecked("wait_for_task_delete") /\ result = -1

\* wait_for_task_delete has returned 0 at the third response, the first
\* without a task status.
DeletedAtThirdPoll ==
  /\ Done("wait_for_task_delete")
  /\ result = 0
  /\ Len(seen) = 3
  /\ CarriesTaskStatus(seen[1])
  /\ CarriesTaskStatus(seen[2])
  /\ ~CarriesTaskStatus(seen[3])

\* C16: on a session where every send and every read succeeds and every
\* response is of class 2 and lists the target task, with a terminal run
\* state from some response on, a call of wait_for_task_end returns,
\* however many responses with other run states come first.
TaskEndEventuallyReturns ==
  (op = "wait_for_task_end" /\ opc # "done") ~> (opc = "done")

\* wait_for_task_end has returned after as many responses without a
\* terminal run state as the manager of SpecEnd may send.
ReturnedAfterLongWait ==
  /\ env = "good"
  /\ Done("wait_for_task_end")
  /\ Len(seen) = MaxPolls + 1
  /\ Len(sends) = MaxPolls + 1
  /\ \A i \in 1..MaxPolls :
       TargetRunStates(seen[i], args.id) \in {{S_Requested}, {S_Running}}
  /\ TargetRunStates(seen[MaxPolls + 1], args.id) = {S_Stopped}
  /\ result = 1

\* Event i of a loop that does a send, a read and a sleep, in this order,
\* over and over.
RoundTrip(i) == <<"send", "read", "sleep">>[((i - 1) % 3) + 1]

\* C17: an iteration of a wait_for_task_ loop is one send followed by one
\* read, one sleep stands between two iterations, and no sleep follows the
\* response that ends the loop; wait_for_task_end with the responses
\* "Requested", "Running", "Done" makes three round trips and two sleeps
\* and returns 0.
OneRoundTripPerIteration ==
  op \in WaitOps
    => /\ \A i \in 1..Len(trace) : trace[i] = RoundTrip(i)
       /\ Len(sends) = Cardinality({i \in 1..Len(trace) : trace[i] = "send"})
       /\ Len(seen) = Cardinality({i \in 1..Len(trace) : trace[i] = "read"})
       /\ opc = "send" => (trace = <<>> \/ trace[Len(trace)] = "sleep")
       /\ opc = "read" => (trace # <<>> /\ trace[Len(trace)] = "send")
       /\ opc \in {"check", "sleep"}
            => (trace # <<>> /\ trace[Len(trace)] = "read")
       /\ (opc = "done" /\ got) => trace[Len(trace)] # "send"
       /\ (opc = "done" /\ result \in {0, 1, -2})
            => trace[Len(trace)] = "read"
       /\ (op = "wait_for_task_end" /\ JustChecked("wait_for_task_end")
             /\ Len(seen) = 3
             /\ \A i \in 1..3 : Class2(seen[i])
             /\ seen[1].entities = <<Task(S_task, args.id, S_Requested)>>
             /\ seen[2].entities = <<Task(S_task, args.id, S_Running)>>
             /\ seen[3].entities = <<Task(S_task, args.id, S_Done)>>)
            => /\ trace = <<"send", "read", "sleep", "send", "read",
                            "sleep", "send", "read">>
               /\ Returned(0)

\* wait_for_task_end has read "Requested", "Running" and "Done" and has
\* returned.
RequestedRunningDone ==
  /\ Done("wait_for_task_end")
  /\ Len(seen) = 3
  /\ seen[1].entities = <<Task(S_task, S_t1, S_Requested)>>
  /\ seen[2].entities = <<Task(S_task, S_t1, S_Running)>>
  /\ seen[3].entities = <<Task(S_task, S_t1, S_Done)>>
  /\ \A i \in 1..3 : Class2(seen[i])
  /\ Len(sends) = 3
  /\ Cardinality({i \in 1..Len(trace) : trace[i] = "sleep"}) = 2
  /\ result = 0

\* C18: a session never has more than one request awaiting its response:
\* whenever an operation is about to send, every request sent before has
\* had its response read or has been given up with an error return, within
\* one operation and from one operation to the next.
OneRequestOutstanding ==
  /\ pending \in {0, 1}
  /\ opc = "send" => pending = 0
  /\ opc = "read" => pending = 1
  /\ opc = "done" => pending = 0

\* The second request of a polling loop is on the wire, the response to
\* the first having been read.
SecondRequestOutstanding ==
  /\ op = "wait_for_task_start"
  /\ opc = "read"
  /\ Len(sends) = 2
  /\ Len(seen) = 1
  /\ pending = 1

UntilUpResult ==
  /\ up.fn # "none"
       => /\ up.n = Len(up.calls) + 1
          /\ \A i \in 1..Len(up.calls) : up.calls[i] = 503
  /\ (op = "omp_until_up" /\ opc = "done")
       => LET k == Len(up.calls) - 1
          IN /\ k >= 0
             /\ \A i \in 1..k : up.calls[i] = 503
             /\ up.calls[k + 1] # 503
             /\ up.n = k + 1
             /\ result = up.calls[k + 1]

\* omp_until_up has returned 0 after its function answered 503 twice.
UpAfterTwoRefusals ==
  /\ op = "omp_until_up"
  /\ opc = "done"
  /\ up.calls = <<503, 503, 0>>
  /\ up.n = 3
  /\ result = 0

(***************************************************************************)
(* Properties of create_task and omp_create_task.                          *)
(***************************************************************************)
CreateTask == {"create_task", "omp_create_task"}

\* C21: create_task and omp_create_task return 0 only when the status of
\* the response is present, not empty and begins with '2'; with any other
\* status they fail, whatever the children of the response.
CreateTaskNeedsClass2 ==
  (op \in CreateTask /\ opc = "done")
    => /\ result = 0 => (got /\ Class2(response[1]))
       /\ (got /\ ~Class2(response[1])) => result # 0

\* The direct children of e named task_id, in document order.
TaskIdChildren(e) ==
  {i \in 1..Len(e.entities) : e.entities[i].name = S_task_id}

RcfileIsEncodedPayload ==
  (op \in {"create_task", "omp_create_config"} /\ sends # <<>>)
    => sends[1][2] = IF args.config_len = 0 THEN <<>>
                     ELSE Base64(SubSeq(args.config, 1, args.config_len))

(***************************************************************************)
(* Entity trees built by hand with make_entity, add_entity and             *)
(* add_attribute.  A description gives the arguments of the calls: the     *)
(* name and text of the entity, the add_attribute calls made on it in      *)
(* order, and the descriptions of the children added to it in order.       *)
(***************************************************************************)
MaxKids == 2        \* children added to the root of a hand-built tree

S_a == <<"a">>
S_b == <<"b">>
S_k == <<"k">>
S_m == <<"m">>
S_1 == <<"1">>
S_2 == <<"2">>

RECURSIVE AddAttributeCalls(_, _, _)
AddAttributeCalls(H, e, cs) ==
  IF cs = <<>> THEN H
  ELSE AddAttributeCalls(add_attribute(H, e, Head(cs)[1], Head(cs)[2]),
                         e, Tail(cs))

RECURSIVE BuildEntity(_, _, _)
RECURSIVE BuildEntities(_, _, _)
BuildEntities(H, parent, ds) ==
  IF ds = <<>> THEN H
  ELSE BuildEntities(BuildEntity(H, parent, Head(ds)), parent, Tail(ds))
BuildEntity(H, parent, d) ==
  LET H1 == add_entity(H, parent, d.name, d.text)
  IN BuildEntities(AddAttributeCalls(H1, Len(H1), d.attrs), Len(H1), d.kids)

\* The entity a description builds, as a value.
Built(d) == Tree(BuildEntity(<<>>, 0, d), 1)

Desc(n, t, as, ks) == [name |-> n, text |-> t, attrs |-> as, kids |-> ks]

AttrCalls ==
  {<<>>, << <<S_k, S_1>> >>, << <<S_k, S_2>> >>,
   << <<S_k, S_1>>, <<S_m, S_2>> >>}

KidDescs ==
  {Desc(S_b, S_1, <<>>, <<>>),
   Desc(S_b, S_2, <<>>, <<>>),
   Desc(S_a, NULLSTR, << <<S_k, S_1>> >>, <<Desc(S_b, S_1, <<>>, <<>>)>>)}

RootDescs ==
  {Desc(n, t, as, ks) :
     n \in {S_a, S_b, NULLSTR}, t \in {NULLSTR, S_1}, as \in AttrCalls,
     ks \in SeqsUpTo(KidDescs, MaxKids)}

\* Pointers to the hand-built entities, and the NULL pointer <<>>.
Trees == {<<Built(d)>> : d \in RootDescs}
TreesOrNull == Trees \cup {<<>>}

\* compare_find_attribute: FALSE if attributes2 holds the key with an
\* equal value, TRUE otherwise.
compare_find_attribute(key, value, attributes2) ==
  ~(<<key, value>> \in attributes2.table)

\* compare_entities on two entity pointers.
RECURSIVE compare_entities(_, _)
RECURSIVE CompareLists(_, _)
CompareLists(list1, list2) ==
  IF list1 # <<>> /\ list2 # <<>>
  THEN IF compare_entities(<<Head(list1)>>, <<Head(list2)>>) # 0 THEN 1
       ELSE CompareLists(Tail(list1), Tail(list2))
  ELSE IF list1 = <<>> /\ list2 = <<>> THEN 0 ELSE 1
compare_entities(entity1, entity2) ==
  IF entity1 = <<>> THEN (IF entity2 = <<>> THEN 0 ELSE 1)
  ELSE IF entity2 = <<>> THEN 1
  ELSE IF entity1[1].attributes.null
  THEN (IF entity2[1].attributes.null THEN 0 ELSE 1)
  ELSE IF entity2[1].attributes.null THEN 1
  ELSE IF entity1[1].name # entity2[1].name THEN 1
  ELSE IF entity1[1].text # entity2[1].text THEN 1
  ELSE IF \E kv \in entity1[1].attributes.table :
            compare_find_attribute(kv[1], kv[2], entity2[1].attributes)
  THEN 1
  ELSE CompareLists(entity1[1].entities, entity2[1].entities)

\* A caller compares two entities.
Compare ==
  /\ cmp = -1
  /\ cmp' = compare_entities(ta, tb)
  /\ UNCHANGED <<ta, tb, dump, back, looked, calls, ctx, events>>
  /\ UNCHANGED <<rvars, ovars, wvars>>

InitCompare ==
  /\ ReaderIdle
  /\ WmiIdle
  /\ OmpIdle
  /\ ta \in TreesOrNull
  /\ tb \in TreesOrNull
  /\ cmp = -1
  /\ dump = NULLSTR
  /\ back = <<>>
  /\ looked = <<>>
  /\ calls = <<>>
  /\ ctx = NewParse
  /\ events = <<>>

\* The caller compares them the other way round.
CompareSwapped ==
  /\ back = <<>>
  /\ back' = <<compare_entities(tb, ta)>>
  /\ UNCHANGED <<ta, tb, cmp, dump, looked, calls, ctx, events>>
  /\ UNCHANGED <<rvars, ovars, wvars>>

NextCompare == Compare \/ CompareSwapped

SpecCompare == InitCompare /\ [][NextCompare]_vars

\* Same name, same text, same attributes (keys and values), as many
\* children, and the i-th children the same in turn.
RECURSIVE SameEntity(_, _)
SameEntity(a, b) ==
  /\ a.name = b.name
  /\ a.text = b.text
  /\ a.attributes.table = b.attributes.table
  /\ Len(a.entities) = Len(b.entities)
  /\ \A i \in 1..Len(a.entities) : SameEntity(a.entities[i], b.entities[i])

\* C24: compare_entities(a, b) returns 0 if and only if a and b have the
\* same name, the same text, the same set of attributes and the same number
\* of children with the i-th children equal in turn; otherwise it returns 1.
CompareIsStructuralEquality ==
  (cmp # -1 /\ ta # <<>> /\ tb # <<>>)
    => cmp = IF SameEntity(ta[1], tb[1]) THEN 0 ELSE 1

(***************************************************************************)
(* Printing an entity and reading the print back.                          *)
(***************************************************************************)
\* The orders in which g_hash_table_foreach may visit a table.
Orders(table) ==
  {o \in [1..Cardinality(table) -> table] :
     \A i, j \in 1..Cardinality(table) : o[i] = o[j] => i = j}

\* foreach_print_attribute over the table in one order: name="value",
\* each after a space.
RECURSIVE PrintAttributes(_)
PrintAttributes(o) ==
  IF o = <<>> THEN <<>>
  ELSE <<" ">> \o Head(o)[1] \o <<"=", DQ>> \o Head(o)[2] \o <<DQ>>
         \o PrintAttributes(Tail(o))

\* print_entity: the strings the call may write to the stream, one for
\* each order of the attributes of each entity.
RECURSIVE print_entity(_)
RECURSIVE print_entities(_)
print_entities(entities) ==
  IF entities = <<>> THEN {<<>>}
  ELSE {h \o t : h \in print_entity(Head(entities)),
                 t \in print_entities(Tail(entities))}
print_entity_no_text(e) ==
  {<<"<">> \o e.name \o PrintAttributes(o) \o <<">">> \o ks
     \o <<"<", "/">> \o e.name \o <<">">> :
     o \in Orders(e.attributes.table), ks \in print_entities(e.entities)}
print_entity(e) ==
  {<<"<">> \o e.name
     \o (IF ~e.attributes.null /\ Cardinality(e.attributes.table) # 0
         THEN PrintAttributes(o) ELSE <<>>)
     \o <<">">> \o e.text \o ks \o <<"<", "/">> \o e.name \o <<">">> :
     o \in Orders(e.attributes.table), ks \in print_entities(e.entities)}

\* What a caller of read_entity gets when the peer writes bytes and then
\* closes: the bytes arrive in a chunk of cut bytes and a chunk of the
\* rest (xml.c:454-522).
ReadResult(P, cut, split) ==
  IF P.abort
  THEN [ret |-> 0, tree |-> <<>>, abort |-> TRUE, cut |-> cut,
        split |-> split]
  ELSE IF P.tk.error \/ (P.data.done /\ EndParseError(P))
  THEN [ret |-> -2, tree |-> <<>>, abort |-> FALSE, cut |-> cut,
        split |-> split]
  ELSE IF P.data.done
  THEN [ret |-> 0, tree |-> <<Tree(P.heap, Head(P.data.first).data)>>,
        abort |-> FALSE, cut |-> cut, split |-> split]
  ELSE [ret |-> -3, tree |-> <<>>, abort |-> FALSE, cut |-> cut,
        split |-> split]

ReadPrinted(bytes, cut, split) ==
  LET P1 == ParseChunk(NewParse, SubSeq(bytes, 1, cut), split)
  IN IF P1.abort \/ P1.tk.error \/ P1.data.done \/ cut = Len(bytes)
     THEN ReadResult(P1, cut, split)
     ELSE ReadResult(ParseChunk(P1, SubSeq(bytes, cut + 1, Len(bytes)),
                                split),
                     cut, split)

\* print_entity (stream, ta)
PrintEntity ==
  /\ ta # <<>>
  /\ dump = NULLSTR
  /\ looked = <<>>
  /\ dump' \in print_entity(ta[1])
  /\ UNCHANGED <<ta, tb, cmp, back, looked, calls, ctx, events>>
  /\ UNCHANGED <<rvars, ovars, wvars>>

\* read_entity on a session that delivers the printed bytes.
ParseDump ==
  /\ dump # NULLSTR
  /\ back = <<>>
  /\ \E cut \in 1..Len(dump), split \in BOOLEAN :
       back' = <<ReadPrinted(dump, cut, split)>>
  /\ UNCHANGED <<ta, tb, cmp, dump, looked, calls, ctx, events>>
  /\ UNCHANGED <<rvars, ovars, wvars>>

LookupNames == {S_a, S_b, <<"B">>}

\* entity_child (ta, name)
EntityChild ==
  /\ ta # <<>>
  /\ dump = NULLSTR
  /\ looked = <<>>
  /\ \E name \in LookupNames :
       looked' = <<[name |-> name, child |-> entity_child(ta[1], name)]>>
  /\ UNCHANGED <<ta, tb, cmp, dump, back, calls, ctx, events>>
  /\ UNCHANGED <<rvars, ovars, wvars>>

InitPrint ==
  /\ ReaderIdle
  /\ WmiIdle
  /\ OmpIdle
  /\ ta \in Trees
  /\ tb = <<>>
  /\ cmp = -1
  /\ dump = NULLSTR
  /\ back = <<>>
  /\ looked = <<>>
  /\ calls = <<>>
  /\ ctx = NewParse
  /\ events = <<>>

NextPrint == PrintEntity \/ ParseDump \/ EntityChild

SpecPrint == InitPrint /\ [][NextPrint]_vars

\* The printed entity has been read back.
ReadBack == ta # <<>> /\ back # <<>>

EntityChildIsFirstMatch ==
  (ta # <<>> /\ looked # <<>>)
    => LET kids == ta[1].entities
           hits == {i \in 1..Len(kids) : kids[i].name = looked[1].name}
       IN looked[1].child =
            IF hits = {} THEN <<>>
            ELSE <<kids[CHOOSE i \in hits : \A j \in hits : i <= j]>>

\* <a><b>1</b><b>2</b></a>: entity_child(a, "b") is the b with text "1".
FirstOfTwoChildren ==
  /\ ta = <<Built(Desc(S_a, NULLSTR, <<>>,
                       <<Desc(S_b, S_1, <<>>, <<>>),
                         Desc(S_b, S_2, <<>>, <<>>)>>))>>
  /\ looked # <<>>
  /\ looked[1].name = S_b
  /\ looked[1].child # <<>>
  /\ looked[1].child[1].text = S_1

(***************************************************************************)
(* Attributes added to one entity, call by call.                           *)
(***************************************************************************)
MaxAdds == 3        \* add_attribute calls on the entity

AttributeNames == {S_k, S_m}
AttributeValues == {<<>>, S_1, S_2}

\* add_attribute (ta, name, value)
AddAttribute ==
  /\ Len(calls) < MaxAdds
  /\ \E name \in AttributeNames, value \in AttributeValues :
       /\ ta' = <<add_attribute(ta, 1, name, value)[1]>>
       /\ calls' = Append(calls, <<name, value>>)
  /\ looked' = <<>>
  /\ UNCHANGED <<tb, cmp, dump, back, ctx, events>>
  /\ UNCHANGED <<rvars, ovars, wvars>>

\* entity_attribute (ta, name)
EntityAttribute ==
  /\ looked = <<>>
  /\ \E name \in AttributeNames :
       looked' = <<[name |-> name, value |-> entity_attribute(ta[1], name)]>>
  /\ UNCHANGED <<ta, tb, cmp, dump, back, calls, ctx, events>>
  /\ UNCHANGED <<rvars, ovars, wvars>>

InitAttr ==
  /\ ReaderIdle
  /\ WmiIdle
  /\ OmpIdle
  /\ ta = <<Built(Desc(S_a, NULLSTR, <<>>, <<>>))>>
  /\ tb = <<>>
  /\ cmp = -1
  /\ dump = NULLSTR
  /\ back = <<>>
  /\ looked = <<>>
  /\ calls = <<>>
  /\ ctx = NewParse
  /\ events = <<>>

NextAttr == AddAttribute \/ EntityAttribute

SpecAttr == InitAttr /\ [][NextAttr]_vars

\* The add_attribute calls made so far with the given name.
CallsFor(name) == SelectSeq(calls, LAMBDA c : c[1] = name)

\* C27: after any sequence of add_attribute calls, entity_attribute(e, n)
\* is the value of the most recent add_attribute(e, n, v); a repeated name
\* overwrites its value and leaves the other names as they were; a name
\* that was never added gives NULL, not the empty string.
AttributeIsLastAdded ==
  looked # <<>>
    => looked[1].value =
         IF CallsFor(looked[1].name) = <<>> THEN NULLSTR
         ELSE CallsFor(looked[1].name)[Len(CallsFor(looked[1].name))][2]

\* k was added twice and m once, with the empty string; k has its second
\* value.
AttributeOverwritten ==
  /\ calls = << <<S_k, S_1>>, <<S_m, <<>> >>, <<S_k, S_2>> >>
  /\ looked # <<>>
  /\ looked[1] = [name |-> S_k, value |-> S_2]

(***************************************************************************)
(* The callbacks, event by event.  The tokenizer of one parse context      *)
(* reports a start tag at any time outside a tag (after the outermost      *)
(* element has closed as well), and text and the end tag of the innermost  *)
(* open element while an element is open.  ctx is the parse context and    *)
(* events the events reported so far.                                      *)
(***************************************************************************)
MaxEvents == 5      \* events reported to the callbacks of one context

EventNames == {S_a, S_b}
EventAttributes == {<<>>, <<S_k>>}
EventTexts == {<<"x">>, <<"y">>}

\* start_element (context, name, attribute_names, attribute_values, ...)
StartElement ==
  /\ Len(events) < MaxEvents
  /\ ~ctx.abort
  /\ \E name \in EventNames, names \in EventAttributes :
       /\ ctx' = emit_start_element(
                   [ctx EXCEPT !.tk.tag_stack = <<name>> \o @,
                               !.tk.attr_names = names,
                               !.tk.attr_values = [i \in 1..Len(names) |-> S_1]])
       /\ events' = Append(events, [kind |-> "start", name |-> name,
                                    text |-> <<>>])
  /\ UNCHANGED <<ta, tb, cmp, dump, back, looked, calls>>
  /\ UNCHANGED <<rvars, ovars, wvars>>

\* end_element (context, name, ...)
EndElement ==
  /\ Len(events) < MaxEvents
  /\ ~ctx.abort
  /\ ctx.tk.tag_stack # <<>>
  /\ ctx' = emit_end_element(ctx)
  /\ events' = Append(events, [kind |-> "end", name |-> Head(ctx.tk.tag_stack),
                               text |-> <<>>])
  /\ UNCHANGED <<ta, tb, cmp, dump, back, looked, calls>>
  /\ UNCHANGED <<rvars, ovars, wvars>>

\* text (context, text, text_len, ...)
Text ==
  /\ Len(events) < MaxEvents
  /\ ~ctx.abort
  /\ ctx.tk.tag_stack # <<>>
  /\ \E text \in EventTexts :
       /\ ctx' = emit_text([ctx EXCEPT !.tk.partial = text])
       /\ events' = Append(events, [kind |-> "text",
                                    name |-> Head(ctx.tk.tag_stack),
                                    text |-> text])
  /\ UNCHANGED <<ta, tb, cmp, dump, back, looked, calls>>
  /\ UNCHANGED <<rvars, ovars, wvars>>

InitEvents ==
  /\ ReaderIdle
  /\ WmiIdle
  /\ OmpIdle
  /\ TreeIdle

NextEvents == StartElement \/ EndElement \/ Text

SpecEvents == InitEvents /\ [][NextEvents]_vars

\* The step reports an event of the given kind.
Reports(kind) ==
  /\ events' # events
  /\ events'[Len(events')].kind = kind

\* The entities that have e among their children.
Parents(e) == {p \in 1..Len(ctx.heap) : \E i \in 1..Len(ctx.heap[p].entities) :
                                          ctx.heap[p].entities[i] = e}

\* C28: on each start-element event the new entity becomes the root when
\* no element is open, and is appended as the last child of the innermost
\* open element otherwise; it then is the innermost open element.  So
\* every entity that is not the root has exactly one parent.
StartPlacesEntity ==
  /\ [][Reports("start")
          => /\ IF ctx.tk.tag_stack = <<>>
                THEN /\ ctx'.data.first # <<>>
                     /\ Head(ctx'.data.first).data = Len(ctx'.heap)
                ELSE /\ ctx.data.current # <<>>
                     /\ ctx'.heap[Head(ctx.data.current).data].entities
                          = Append(ctx.heap[Head(ctx.data.current).data].entities,
                                   Len(ctx'.heap))
             /\ ctx'.data.current # <<>>
             /\ Head(ctx'.data.current).data = Len(ctx'.heap)
             /\ Tail(ctx'.data.current) = ctx.data.current]_vars
  /\ [](\A e \in 1..Len(ctx.heap) :
          (ctx.data.first # <<>> /\ e # Head(ctx.data.first).data)
            => Cardinality(Parents(e)) = 1)

\* C29: on each end-element event the innermost open element is popped,
\* and done becomes true exactly when the popped element is the root, the
\* first element opened; no other event sets done and nothing clears it.
EndPopsAndMarksDone ==
  [][/\ Reports("end")
          => /\ ctx.data.current # <<>>
             /\ ctx.heap[Head(ctx.data.current).data].name
                  = events'[Len(events')].name
             /\ ctx'.data.current = Tail(ctx.data.current)
             /\ ctx'.data.done
                  = (ctx.data.done \/ Head(ctx.data.current).data = 1)
     /\ ~Reports("end") => ctx'.data.done = ctx.data.done
     /\ ctx.data.done => ctx'.data.done]_vars

\* <a><b></b></a> has been reported and done is set.
RootClosedAfterChild ==
  /\ Len(events) = 4
  /\ [i \in 1..4 |-> events[i].kind] = <<"start", "start", "end", "end">>
  /\ ctx.data.done

\* The text each entity has been given, told from the events: the k-th
\* start event opens entity k, and a text event goes to the entity on top
\* of the stack of open entities.
RECURSIVE TextsFrom(_, _, _)
TextsFrom(evs, open, texts) ==
  IF evs = <<>> THEN texts
  ELSE IF Head(evs).kind = "start"
  THEN TextsFrom(Tail(evs), <<Len(texts) + 1>> \o open, Append(texts, <<>>))
  ELSE IF Head(evs).kind = "end"
  THEN TextsFrom(Tail(evs), Tail(open), texts)
  ELSE TextsFrom(Tail(evs), open,
                 [texts EXCEPT ![Head(open)] = @ \o Head(evs).text])

\* C30: each text event appends to the text of the innermost open
\* element and never replaces it: the text of an entity is the
\* concatenation, in arrival order, of the text events received while it
\* was the innermost open element, text between and after its children
\* included, however a run of text is split into events.
TextIsConcatenation ==
  /\ Len(ctx.heap) = Len(TextsFrom(events, <<>>, <<>>))
  /\ \A e \in 1..Len(ctx.heap) :
       ctx.heap[e].text = TextsFrom(events, <<>>, <<>>)[e]

\* <a>x<b></b>yx: text before a child, and a run after it in two events.
TextAroundChild ==
  /\ Len(events) = 5
  /\ [i \in 1..5 |-> events[i].kind]
       = <<"start", "text", "start", "end", "text">>
  /\ ctx.heap[1].text = <<"x", "y">>

(***************************************************************************)
(* The callbacks as functions of their arguments: as in SpecEvents, and    *)
(* handle_end_element is also called with a name that is not the name of   *)
(* the innermost open element.  A failed assert ends the process.          *)
(***************************************************************************)
EndElementOther ==
  /\ Len(events) < MaxEvents
  /\ ~ctx.abort
  /\ ctx.tk.tag_stack # <<>>
  /\ \E name \in EventNames \ {Head(ctx.tk.tag_stack)} :
       /\ ctx' = handle_end_element([ctx EXCEPT !.tk.tag_stack = Tail(@)],
                                    name)
       /\ events' = Append(events, [kind |-> "end", name |-> name,
                                    text |-> <<>>])
  /\ UNCHANGED <<ta, tb, cmp, dump, back, looked, calls>>
  /\ UNCHANGED <<rvars, ovars, wvars>>

NextHandlers == StartElement \/ EndElement \/ Text \/ EndElementOther

SpecHandlers == InitEvents /\ [][NextHandlers]_vars

\* The step hands handle_end_element a name that is not the name of the
\* entity on top of the stack.
ReportsOtherEnd ==
  /\ Reports("end")
  /\ ctx.data.current # <<>>
  /\ ctx.heap[Head(ctx.data.current).data].name # events'[Len(events')].name

RECURSIVE OpenAfter(_, _, _)
OpenAfter(evs, open, n) ==
  IF evs = <<>> THEN open
  ELSE IF Head(evs).kind = "start"
  THEN OpenAfter(Tail(evs), <<n + 1>> \o open, n + 1)
  ELSE IF Head(evs).kind = "end"
  THEN OpenAfter(Tail(evs), Tail(open), n)
  ELSE OpenAfter(Tail(evs), open, n)

CountOf(kind) == Len(SelectSeq(events, LAMBDA e : e.kind = kind))

\* C32: after any sequence of start, text and end events of one parse the
\* stack holds exactly the elements started and not yet ended, innermost
\* first, with the root at the bottom whenever it is not empty; its depth
\* is the number of start events minus the number of end events, and done
\* is true only if that depth has returned to zero.
StackIsOpenElements ==
  /\ [i \in 1..Len(ctx.data.current) |-> ctx.data.current[i].data]
       = OpenAfter(events, <<>>, 0)
  /\ Len(ctx.data.current) = CountOf("start") - CountOf("end")
  /\ ctx.data.current # <<>>
       => ctx.data.current[Len(ctx.data.current)].data
            = Head(ctx.data.first).data
  /\ ctx.data.done
       => \E n \in 1..Len(events) :
            OpenAfter(SubSeq(events, 1, n), <<>>, 0) = <<>>

\* C33: in wait_for_task_start, _end and _stop a response whose status is
\* present and not empty but does not begin with '2' neither ends the loop
\* nor is reported as an error: the function sleeps and sends the status
\* request again, so a manager that answers every request with such a
\* status keeps the call from ever returning.
RefusedStatusKeepsPolling ==
  /\ [][(opc = "check" /\ opc' # "check")
          => /\ opc' = "sleep"
             /\ result' = result
             /\ op' = op]_vars
  /\ [][(opc = "sleep" /\ opc' # "sleep") => opc' = "send"]_vars
  /\ [](opc # "done")

\* Three refusals have been read and the fourth request is due.
RefusedThreeTimes ==
  /\ op = "wait_for_task_stop"
  /\ Len(seen) = MaxPolls + 1
  /\ opc = "send"
  /\ Len(SelectSeq(trace, LAMBDA x : x = "sleep")) = MaxPolls + 1

\* No direct child of the response is named exactly task and has a child
\* named status.
NoTaskWithStatus(e) ==
  \A i \in 1..Len(e.entities) :
    e.entities[i].name = S_task
      => \A j \in 1..Len(e.entities[i].entities) :
           e.entities[i].entities[j].name # S_status

\* C34: wait_for_task_delete looks neither at the status attribute of the
\* response nor at the id of the task it finds: it returns 0 for any
\* response without a direct child named exactly task that has a status
\* child, an error response included, and polls again whenever the first
\* task child of the response has a status child, whichever task it is.
TaskDeleteIgnoresStatusAndId ==
  JustChecked("wait_for_task_delete")
    => /\ NoTaskWithStatus(response[1]) => Returned(0)
       /\ CarriesTaskStatus(response[1])
            => /\ opc = "sleep"
               /\ \A e \in StatusResponses :
                    e.entities = response[1].entities
                      => TaskDeleteCheck(e) = TaskDeleteCheck(response[1])

\* The loop went on at a response that lists another task only, and
\* returned 0 at an error response.
DeleteEndsAtErrorResponse ==
  /\ Done("wait_for_task_delete")
  /\ result = 0
  /\ Len(seen) = 2
  /\ seen[1].entities = <<Task(S_task, S_t2, S_Done)>>
  /\ entity_attribute(seen[2], S_status) = S_400
  /\ seen[2].entities = <<>>

\* What the loop f makes of the response e, by the code of its iteration.
Verdict(f, e, tid) ==
  IF f = "wait_for_task_start" THEN TaskStartCheck(e, tid)
  ELSE IF f = "wait_for_task_end" THEN TaskEndCheck(e, tid)
  ELSE TaskStopCheck(e, tid)

\* The state is the one the loop is in after the verdict v.
Follows(v) ==
  IF "again" \in DOMAIN v THEN opc = "sleep" ELSE Returned(v.ret)

\* The response cut after its n-th child.
CutAfter(e, n) == [e EXCEPT !.entities = SubSeq(e.entities, 1, n)]

\* C35: in wait_for_task_start, _end and _stop the search over the
\* children of the response runs in document order and stops at the first
\* task child whose id is the target's, so later children never affect the
\* result; a task child without an id that is met before any match makes
\* the function return -1, even when a matching task comes later.
SearchStopsAtFirstMatch ==
  \A f \in {"wait_for_task_start", "wait_for_task_end", "wait_for_task_stop"} :
    (JustChecked(f) /\ Class2(response[1]))
      => LET e == response[1]
             hits == TargetPlaces(e, args.id)
         IN /\ (\E i \in NamelessPlaces(e) : \A j \in hits : i < j)
                 => Returned(-1)
            /\ (hits # {} /\ \A i \in NamelessPlaces(e) : \E j \in hits : j < i)
                 => LET m == CHOOSE j \in hits : \A k \in hits : j <= k
                    IN Follows(Verdict(f, CutAfter(e, m), args.id))

\* wait_for_task_end found the target running and listed a second time as
\* done: it sleeps.
SecondListingIgnored ==
  /\ JustChecked("wait_for_task_end")
  /\ opc = "sleep"
  /\ response[1].entities
       = <<Task(S_task, S_t1, S_Running), Task(S_task, S_t1, S_Done)>>

\* C36: compare_entities is reflexive and symmetric: compare_entities(a, a)
\* is 0 for every entity a, and compare_entities(a, b) is
\* compare_entities(b, a) for all entities a and b, also when one has
\* attributes the other lacks and when one or both have no attributes.
CompareReflexiveSymmetric ==
  /\ (cmp # -1 /\ ta = tb) => cmp = 0
  /\ (cmp # -1 /\ back # <<>>) => cmp = back[1]

\* C37: the result of omp_get_status and omp_get_certificates is
\* determined by the response alone: the call returns what a call that
\* reads the same response returns at any other value of errno.
ResultIndependentOfErrno ==
  (op \in Passthrough /\ opc = "done" /\ got)
    => \A err \in {0, ERANGE} :
         result = StatusCodeCheckAt(response[1], err).ret

\* C38: after an operation has returned, what the client has put on the
\* session is a sequence of complete top-level request elements: when a
\* send fails part-way through omp_modify_task, no opening modify_task tag
\* is left on the session without its closing tag.
NoOpenRequestLeft ==
  (op = "omp_modify_task" /\ opc = "done")
    => Len(SelectSeq(sends, LAMBDA x : x = "<modify_task task_id=\"%s\">"))
         = Len(SelectSeq(sends, LAMBDA x : x = "</modify_task>"))

\* C39: omp_get_certificates sends a get_certificates request, and on
\* success the entity handed to the caller is the response to that
\* request, not the response to another command.
CertificatesRequested ==
  (op = "omp_get_certificates" /\ sends # <<>>)
    => /\ sends = <<"<get_certificates/>">>
       /\ (opc = "done" /\ result = 0) => (got /\ out = response)

(***************************************************************************)
(* nasl_wmi_close (credentials.c:241-261).  The call reads the handle from *)
(* the lexical context, allocates the tree cell, closes the handle and     *)
(* returns.  alloc_tree_cell may return NULL; wmi_close returns 0 or not.  *)
(***************************************************************************)
MaxHandle == 3      \* values of wmi_handle are 0..MaxHandle
MaxCloses == 2      \* calls of nasl_wmi_close

wmi_close == {0, -1, 1}

\* return value; of the call that read handle and got closed from
\* wmi_close (<<>> when wmi_close was not called).
WmiReturn(handle, value, closed) ==
  /\ wpc' = "done"
  /\ wout' = Append(wout, [handle |-> handle, closed |-> closed,
                           value |-> value])

\* handle = get_int_local_var_by_name (lexic, "wmi_handle", 0);
\* if (!handle) return NULL;
WmiCall ==
  /\ wpc \in {"idle", "done"}
  /\ Len(wout) < MaxCloses
  /\ \E handle \in 0..MaxHandle :
       /\ wmi_handle' = handle
       /\ retc' = <<>>
       /\ IF handle = 0
          THEN WmiReturn(handle, <<>>, <<>>)
          ELSE wpc' = "alloc" /\ UNCHANGED wout
  /\ UNCHANGED <<rvars, ovars, tvars>>

\* retc = alloc_tree_cell (0, NULL); if (!retc) return NULL;
\* retc->type = CONST_INT;
WmiAlloc ==
  /\ wpc = "alloc"
  /\ \E allocated \in BOOLEAN :
       IF allocated
       THEN /\ retc' = <<[type |-> "CONST_INT", i_val |-> 0]>>
            /\ wpc' = "close"
            /\ UNCHANGED <<wmi_handle, wout>>
       ELSE /\ WmiReturn(wmi_handle, <<>>, <<>>)
            /\ UNCHANGED <<wmi_handle, retc>>
  /\ UNCHANGED <<rvars, ovars, tvars>>

\* if (wmi_close (handle) == 0);  { retc->x.i_val = 1; return retc; }
\* The semicolon ends the if statement: the block that follows is not
\* under the condition, and the return NULL after it is never reached.
WmiClose ==
  /\ wpc = "close"
  /\ \E r \in wmi_close :
       /\ retc' = <<[retc[1] EXCEPT !.i_val = 1]>>
       /\ WmiReturn(wmi_handle, retc', <<r>>)
  /\ UNCHANGED wmi_handle
  /\ UNCHANGED <<rvars, ovars, tvars>>

nasl_wmi_close == WmiCall \/ WmiAlloc \/ WmiClose

InitWmi ==
  /\ ReaderIdle
  /\ OmpIdle
  /\ TreeIdle
  /\ WmiIdle

NextWmi == nasl_wmi_close

SpecWmi == InitWmi /\ [][NextWmi]_vars

\* C40: nasl_wmi_close returns NULL when the wmi_handle is 0 or when
\* closing the handle fails (wmi_close returns non-zero), and returns a
\* cell with integer value 1 only when wmi_close returned 0.
WmiCloseResult ==
  \A i \in 1..Len(wout) :
    /\ wout[i].handle = 0 => wout[i].value = <<>>
    /\ (wout[i].closed # <<>> /\ wout[i].closed[1] # 0)
         => wout[i].value = <<>>
    /\ (wout[i].value # <<>> /\ wout[i].value[1].i_val = 1)
         => wout[i].closed = <<0>>

====
